---- MODULE Spec2Model ----
(***************************************************************************)
(* Model of the transaction lifecycle of sevla-d-oro                       *)
(* (src/transaction_system.py, class TransactionSystem) and of its         *)
(* warehouse registry and assignment service (src/warehouse_system.py,     *)
(* class WarehouseSystem).                                                 *)
(*                                                                         *)
(* Units.  Time is counted in hours since the start of the run.  Weights   *)
(* are integers in thousandths of a kg, prices in thousandths of a sol per *)
(* kg; values produced by round(x, 2) are integers in hundredths.          *)
(* A quotation code '#' + 6 characters is the pair <<code[1:4], code[4:7]>>*)
(* so that the fragment used by the transaction id can be taken.           *)
(* Coordinates are integers in 1/10000 of a degree, distances integers in  *)
(* hundredths of a km.                                                     *)
(***************************************************************************)
EXTENDS Integers, Sequences, FiniteSets, TLC

\* ---------------------------------------------------------------- bounds
MaxTime == 216
MaxQuotations == 2
MaxUpdates == 2
MaxAssignments == 2
MaxLedger == 2
MaxIssues == 3
MaxRatings == 3

\* ------------------------------------------------------- program constants
DefaultValidHours == 24
RetentionHours == 168
DefaultMaxDistanceKm == 500
DefaultLimit == 3

\* ------------------------------------------------------------ input sets
Codes == {<<"ABC", "123">>, <<"ABC", "456">>}
NoCode == <<"", "">>
Phones == {"+51900000001"}
Materials == {"PET"}
EstimatedKgs == {0, 8000}
ActualKgs == {10000}
Prices == {2200}
CalcEstimatedKgs == {0, 7, 3000, 8000}
CalcActualKgs == {1, 2517, 10000}
CalcPrices == {3, 1115, 2200}
PhotoUrls == {"photo1"}
PaymentMethods == {"cash"}
WarehouseIds == {"WH001"}
TickHours == {24, 168}
Procs == {1, 2}

\* user coordinates <<latitude, longitude>>: at WH001; equidistant from WH002
\* and WH005; between WH003 and WH001, nearer to WH003; far from all
PointAtWH001 == <<-119932, -769942>>
PointTie == <<-121865, -769610>>
PointBetween == <<-120200, -769600>>
PointFar == <<-125000, -775000>>
UserPoints == {PointAtWH001, PointTie, PointBetween, PointFar}
PointNorth == <<-120000, -770000>>
PointSouthOfWH001 == <<-120464, -769942>>
PointWest == <<-120464, -770500>>
SearchMaterials == {"PET", "Aluminio", "pet"}
SearchDistances == {371, 500, 5000}
SearchLimits == {3}
LoadWarehouseIds == {"WH001", "WH999"}
LoadChanges == {-1000000000, -1100000, 3295000, 3300000, 3305000}
AssignPhones == {"+51900000001", "+51900000002"}
AssignPoints == {PointTie, PointBetween, PointFar}
AssignMaterials == {"PET"}
AssignEstimatedKgs == {8000}
AssignLoadWarehouseIds == {"WH003", "WH999"}
AssignLoadChanges == {-1000000000, 3300000}
InactiveAtLoad == {"WH003", "WH005"}
OpenWarehouseIds == {"WH001", "WH005", "WH999"}
FlowEstimatedKgs == {8000}
FlowPrices == {0, 2200}
FlowWarehouseIds == {"WH001", "WH999"}
\* times of day, in seconds since midnight: around 06:00, 07:00, 18:00 and
\* 20:00, and the ends of the day
RatingPhones == {"+51900000001", "+51900000002"}
RatingStars == {0, 3, 5}
RatingTransactionIds == {"TXN-1"}
TimesOfDay == {0, 21599, 21600, 21601, 25200, 43200, 64800, 64801, 72000,
               72001, 86399}

\* --------------------------------------------------------- result values
ERR_NONE == "None"
ERR_NOT_FOUND == "Codigo no existe"
ERR_EXPIRED == "Codigo expirado (valido 24h)"
ERR_USED == "Codigo ya fue utilizado"
ERR_ZERO_DIV == "ZeroDivisionError"
ERR_STARS == "Stars must be between 1 and 5"
ERR_KEY == "KeyError"

NoTransactionId == [ts |-> -1, frag |-> ""]

\* now           the wall clock (datetime.now()), in hours
\* active_codes  TransactionSystem.active_codes: code -> quotation
\* transactions  TransactionSystem.transactions: the ledger, a list
\* created       number of create_quotation calls made so far
\* last          the last operation called, its argument and what it returned
\* expired_seen  codes on which some validate_code call answered "expired"
\* calls         the complete_transaction calls in flight, per writer
\* warehouses    WarehouseSystem.warehouses: the registry, a list
\* assignments   WarehouseSystem.assignments: the assignment history, a list
\* updates       number of update_warehouse_load calls made so far
\* wlast         the last WarehouseSystem operation called, its arguments and
\*               what it returned (ret: a list; None is the empty list)
\* commissions   RevenueSystem.commissions: the commission ledger, a list
\* disk          the JSON files of the stores: for each, the document last
\*               written (a list of one document; empty while the file
\*               does not exist)
VARIABLES now, active_codes, transactions, created, last, expired_seen, calls,
          warehouses, assignments, updates, wlast, commissions, disk,
          ratings, reputation

whvars == <<warehouses, assignments, updates, wlast>>

txvars == <<now, active_codes, transactions, created, last, expired_seen, calls>>

svcvars == <<commissions, ratings, reputation>>

vars == <<now, active_codes, transactions, created, last, expired_seen, calls,
          warehouses, assignments, updates, wlast, commissions, disk,
          ratings, reputation>>

\* ------------------------------------------------------------- arithmetic
\* round(n / d) to the nearest integer, ties to the even neighbour, as
\* Python's round() does on an exactly representable value.
RoundDivPos(n, d) ==
    LET q == n \div d
        r == n % d
    IN  IF 2 * r < d THEN q
        ELSE IF 2 * r > d THEN q + 1
        ELSE IF q % 2 = 0 THEN q ELSE q + 1

RoundDiv(n, d) == IF d > 0 THEN RoundDivPos(n, d) ELSE RoundDivPos(-n, -d)

\* round(estimated_kg * price_per_kg, 2), in hundredths of a sol
TotalEstimated(estimated_kg, price_per_kg) ==
    RoundDiv(estimated_kg * price_per_kg, 10000)

\* Variant: the total truncated to 2 decimals instead of rounded.
TotalAmount_Truncated(actual_kg, price_per_kg) ==
    (actual_kg * price_per_kg) \div 10000

\* round(actual_kg * price_per_kg, 2), in hundredths of a sol
TotalAmount(actual_kg, price_per_kg) ==
    RoundDiv(actual_kg * price_per_kg, 10000)

\* round(actual_kg - estimated_kg, 2), in hundredths of a kg
WeightDifference(actual_kg, estimated_kg) ==
    RoundDiv(actual_kg - estimated_kg, 10)

\* round((weight_difference / estimated_kg) * 100, 2), in hundredths of a
\* percent; only evaluated for estimated_kg # 0
WeightDifferencePercent(weight_difference, estimated_kg) ==
    RoundDiv(weight_difference * 100000, estimated_kg)

\* ------------------------------------------------------------- helpers
Result(op, code, ok, err, ret) ==
    [op |-> op, code |-> code, ok |-> ok, err |-> err, ret |-> ret]

IdleCall == [pc |-> "idle", code |-> NoCode, actual_kg |-> 0]

Put(store, code, q) ==
    [c \in DOMAIN store \cup {code} |-> IF c = code THEN q ELSE store[c]]

\* f"TXN-{now:%Y%m%d%H%M%S}-{code[1:4]}"
TransactionId(t, code) == [ts |-> t, frag |-> code[1]]

\* ------------------------------------------------------- validate_code
\* Variant: the "completed" test of line 117 left out.
ValidateCode_NoUsedCheck(ac, code, t) ==
    IF code \notin DOMAIN ac
    THEN [ok |-> FALSE, err |-> ERR_NOT_FOUND, codes |-> ac]
    ELSE IF t > ac[code].expires_at
    THEN [ok |-> FALSE, err |-> ERR_EXPIRED,
          codes |-> [ac EXCEPT ![code].status = "expired"]]
    ELSE [ok |-> TRUE, err |-> ERR_NONE, codes |-> ac]

\* Variant: ">=" for ">" in the expiry test of line 112.
ValidateCode_ExpiredAtBoundary(ac, code, t) ==
    IF code \notin DOMAIN ac
    THEN [ok |-> FALSE, err |-> ERR_NOT_FOUND, codes |-> ac]
    ELSE IF t >= ac[code].expires_at
    THEN [ok |-> FALSE, err |-> ERR_EXPIRED,
          codes |-> [ac EXCEPT ![code].status = "expired"]]
    ELSE IF ac[code].status = "completed"
    THEN [ok |-> FALSE, err |-> ERR_USED, codes |-> ac]
    ELSE [ok |-> TRUE, err |-> ERR_NONE, codes |-> ac]

\* Variant: the status write of line 113 done before the expiry test.
ValidateCode_FlipAlways(ac, code, t) ==
    IF code \notin DOMAIN ac
    THEN [ok |-> FALSE, err |-> ERR_NOT_FOUND, codes |-> ac]
    ELSE LET flipped == [ac EXCEPT ![code].status = "expired"]
         IN  IF t > ac[code].expires_at
             THEN [ok |-> FALSE, err |-> ERR_EXPIRED, codes |-> flipped]
             ELSE IF ac[code].status = "completed"
             THEN [ok |-> FALSE, err |-> ERR_USED, codes |-> flipped]
             ELSE [ok |-> TRUE, err |-> ERR_NONE, codes |-> flipped]

\* Result of validate_code(code) at time t on store ac: the pair returned
\* and the store it leaves behind.
ValidateCode(ac, code, t) ==
    IF code \notin DOMAIN ac
    THEN [ok |-> FALSE, err |-> ERR_NOT_FOUND, codes |-> ac]
    ELSE IF t > ac[code].expires_at
    THEN [ok |-> FALSE, err |-> ERR_EXPIRED,
          codes |-> [ac EXCEPT ![code].status = "expired"]]
    ELSE IF ac[code].status = "completed"
    THEN [ok |-> FALSE, err |-> ERR_USED, codes |-> ac]
    ELSE [ok |-> TRUE, err |-> ERR_NONE, codes |-> ac]

\* The codes known to have been answered "expired", after a call answering v.
SeenAfter(seen, code, v) ==
    IF v.err = ERR_EXPIRED THEN seen \cup {code} ELSE seen

\* -------------------------------------------------- generate_unique_code
\* Variant: the membership test of line 59 left out.
GenerateUniqueCode_NoCheck(ac) == Codes

\* The codes the rejection-sampling loop can return.
GenerateUniqueCode(ac) == Codes \ DOMAIN ac

\* ---------------------------------------------------- warehouse registry
\* _initialize_default_warehouses (capacities and loads in thousandths of kg)
DefaultWarehouses ==
    << [warehouse_id |-> "WH001", name |-> "Bodega San Juan de Lurigancho",
        address |-> "Av. Proceres de la Independencia 1245",
        district |-> "San Juan de Lurigancho",
        latitude |-> -119932, longitude |-> -769942,
        capacity_kg |-> 5000000, current_load_kg |-> 1200000,
        opening_hour |-> "06:00", closing_hour |-> "20:00",
        phone |-> "+51987654321", active |-> TRUE,
        materials_accepted |->
            {"PET", "HDPE", "LDPE", "PP", "Carton", "Papel", "Vidrio"}],
       [warehouse_id |-> "WH002", name |-> "Bodega Villa El Salvador",
        address |-> "Av. El Sol 892",
        district |-> "Villa El Salvador",
        latitude |-> -122122, longitude |-> -769392,
        capacity_kg |-> 3000000, current_load_kg |-> 800000,
        opening_hour |-> "07:00", closing_hour |-> "19:00",
        phone |-> "+51987654322", active |-> TRUE,
        materials_accepted |->
            {"PET", "Aluminio", "Acero", "Cobre", "Carton"}],
       [warehouse_id |-> "WH003", name |-> "Bodega Ate Vitarte",
        address |-> "Av. Nicolas Ayllon 3456",
        district |-> "Ate",
        latitude |-> -120464, longitude |-> -769378,
        capacity_kg |-> 4000000, current_load_kg |-> 2100000,
        opening_hour |-> "06:00", closing_hour |-> "20:00",
        phone |-> "+51987654323", active |-> TRUE,
        materials_accepted |->
            {"PET", "HDPE", "PP", "Carton", "Papel", "Vidrio", "Aluminio"}],
       [warehouse_id |-> "WH004", name |-> "Bodega Comas",
        address |-> "Av. Tupac Amaru Km 10.5",
        district |-> "Comas",
        latitude |-> -119389, longitude |-> -770528,
        capacity_kg |-> 3500000, current_load_kg |-> 900000,
        opening_hour |-> "06:30", closing_hour |-> "19:30",
        phone |-> "+51987654324", active |-> TRUE,
        materials_accepted |->
            {"PET", "HDPE", "LDPE", "Carton", "Papel"}],
       [warehouse_id |-> "WH005", name |-> "Bodega Villa Maria del Triunfo",
        address |-> "Av. Pachacutec 2890",
        district |-> "Villa Maria del Triunfo",
        latitude |-> -121592, longitude |-> -769414,
        capacity_kg |-> 2500000, current_load_kg |-> 600000,
        opening_hour |-> "07:00", closing_hour |-> "18:00",
        phone |-> "+51987654325", active |-> TRUE,
        materials_accepted |->
            {"PET", "HDPE", "Carton", "Vidrio"}] >>

\* A registry read back from warehouses.json in which the warehouses named
\* in off have been deactivated.
LoadedWarehouses(off) ==
    [i \in DOMAIN DefaultWarehouses |->
        IF DefaultWarehouses[i].warehouse_id \in off
        THEN [DefaultWarehouses[i] EXCEPT !.active = FALSE]
        ELSE DefaultWarehouses[i]]

\* calculate_distance: the values the haversine computation returns, in
\* hundredths of a km, from each user point to the five default warehouses
\* in registry order.
DistanceTable ==
    (PointAtWH001 :> <<0, 2508, 852, 878, 1933>>)
    @@ (PointTie :> <<2179, 371, 1578, 2929, 371>>)
    @@ (PointBetween :> <<477, 2149, 380, 1354, 1561>>)
    @@ (PointFar :> <<7872, 6881, 7922, 7909, 7154>>)

WarehousePoints ==
    [i \in DOMAIN DefaultWarehouses |->
        <<DefaultWarehouses[i].latitude, DefaultWarehouses[i].longitude>>]

\* Points between which distances are asked: the users' points and the
\* warehouses themselves.
DistancePoints ==
    UserPoints \cup {PointNorth, PointSouthOfWH001, PointWest}
    \cup {WarehousePoints[i] : i \in DOMAIN WarehousePoints}

CalculateDistance(lat1, lon1, lat2, lon2) ==
    LET i == CHOOSE k \in DOMAIN WarehousePoints :
                 WarehousePoints[k] = <<lat2, lon2>>
    IN  DistanceTable[<<lat1, lon1>>][i]

\* ------------------------------------------------- calculate_distance
\* Lines 138-156 in integer arithmetic.  Coordinates are in 1/10000 degree
\* (k = pi / 1800000 radian per unit), the result is in hundredths of km.
\* The code evaluates
\*     a = sin(dlat/2)^2 + cos(lat1) * cos(lat2) * sin(dlon/2)^2
\*     c = 2 * atan2(sqrt(a), sqrt(1 - a));  return round(R * c, 2)
\* in double precision; atan2(sqrt(a), sqrt(1 - a)) is asin(sqrt(a)).  Here
\* sin, cos and asin are evaluated by their power
\* series, cut where the next term is below 10^-9 for the coordinates of the
\* registry (|latitude| < 13 degrees, differences < 0.68 degree), and every
\* product is split so that it stays inside 32-bit integers.

\* floor(a * b / 10^6) by long multiplication in base 10^4.
MulDivE6(a, b) ==
    LET a1 == a \div 10000
        a0 == a % 10000
        b1 == b \div 10000
        b0 == b % 10000
        mid == a1 * b0 + a0 * b1
    IN  a1 * b1 * 100 + mid \div 100
        + ((mid % 100) * 10000 + a0 * b0) \div 1000000

\* sq^2 * (k/2)^2 / 3 for sq a squared angle in units: the second term of
\* sin(x)^2 = x^2 - x^4/3 and of asin(h)^2 = h^2 + h^4/3.
QuarticTerm(sq) == ((sq \div 10000) * (sq \div 10000)) \div 39393

\* sin(k*d/2)^2 in units of (k/2)^2, d a coordinate difference (line 152).
SinSqHalf(d) == d * d - QuarticTerm(d * d)

\* 10^8 * (1 - cos(k*phi)), phi a latitude: z/2 - z^2/24 + z^3/720 with
\* z = (k*phi)^2 scaled by 10^8 (math.cos(lat1_rad), line 152).
OneMinusCos(phi) ==
    LET mag == IF phi < 0 THEN -phi ELSE phi
        p == mag \div 10
        r == mag % 10
        F == p * p + (2 * p * r) \div 10
        z == MulDivE6(F, 304617) \div 10
        zz == MulDivE6(z, z)
    IN  z \div 2 - zz \div 2400 + MulDivE6(zz \div 100, z) \div 72000

\* The Earth radius of line 145, in km.
EarthRadiusKm == 6371

\* 10^6 * 4 * (100 * R * k)^2: four times the squared length in hundredths
\* of km of one coordinate unit, scaled by 10^6.
ScaleCoefficient ==
    MulDivE6(EarthRadiusKm * EarthRadiusKm, 121846)
    + MulDivE6(EarthRadiusKm * EarthRadiusKm, 967900) \div 1000000

\* floor(sqrt(n)) by bisection between lo and hi (lo^2 <= n < hi^2).
RECURSIVE ISqrtBetween(_, _, _)
ISqrtBetween(n, lo, hi) ==
    IF hi - lo <= 1 THEN lo
    ELSE LET m == (lo + hi) \div 2
         IN  IF m * m <= n THEN ISqrtBetween(n, m, hi)
             ELSE ISqrtBetween(n, lo, m)

ISqrt(n) == ISqrtBetween(n, 0, 46340)

\* round(x, 2) of line 156 for x = sqrt(n4) / 2 hundredths: the nearest
\* integer T has (2T - 1)^2 <= n4 < (2T + 1)^2.
\* Variant: the distance cut to 2 decimals instead of rounded.
RoundHalfRoot_Truncated(n4) == ISqrt(n4) \div 2
RoundHalfRoot(n4) == (ISqrt(n4) + 1) \div 2

\* calculate_distance (lines 138-156): the haversine distance in hundredths
\* of km.  q is a / (k/2)^2; n4 is (2 * 100 * R * c)^2 with
\* c = 2 * asin(sqrt(a)) (lines 152-155).
Haversine(lat1, lon1, lat2, lon2) ==
    LET s1 == OneMinusCos(lat1)
        s2 == OneMinusCos(lat2)
        one_minus_cc == s1 + s2 - MulDivE6(s1, s2) \div 100
        sin_dlon == SinSqHalf(lon2 - lon1)
        q == SinSqHalf(lat2 - lat1) + sin_dlon
             - MulDivE6(sin_dlon, one_minus_cc) \div 100
        n4 == MulDivE6(q + QuarticTerm(q), ScaleCoefficient)
    IN  RoundHalfRoot(n4)

\* ---------------------------------------------- find_nearest_warehouses
\* Variant: ">=" for ">" in the utilization test of line 191.
OverThreshold_Inclusive(w) == w.current_load_kg * 100 >= 90 * w.capacity_kg

\* utilization > 0.90 (lines 190-191)
OverThreshold(w) == w.current_load_kg * 100 > 90 * w.capacity_kg

\* Variant: the active test of lines 182-183 left out.
Qualifies_NoActiveCheck(w, lat, lon, material, max_distance_km) ==
    /\ material \in w.materials_accepted
    /\ ~OverThreshold(w)
    /\ CalculateDistance(lat, lon, w.latitude, w.longitude) <= max_distance_km

\* The tests a warehouse passes to become a candidate (lines 182-200).
Qualifies(w, lat, lon, material, max_distance_km) ==
    /\ w.active
    /\ material \in w.materials_accepted
    /\ ~OverThreshold(w)
    /\ CalculateDistance(lat, lon, w.latitude, w.longitude) <= max_distance_km

\* warehouse.copy() with the key 'distance_km' added (lines 201-202)
WarehouseInfo(w, distance) ==
    [f \in DOMAIN w \cup {"distance_km"} |->
        IF f = "distance_km" THEN distance ELSE w[f]]

\* The loop of lines 181-203: the candidates, in registry order.
Candidates(whs, lat, lon, material, max_distance_km) ==
    LET F[i \in 0..Len(whs)] ==
            IF i = 0 THEN << >>
            ELSE IF Qualifies(whs[i], lat, lon, material, max_distance_km)
                 THEN Append(F[i - 1],
                        WarehouseInfo(whs[i],
                            CalculateDistance(lat, lon, whs[i].latitude,
                                              whs[i].longitude)))
                 ELSE F[i - 1]
    IN  F[Len(whs)]

\* x put into the sorted list s after every element whose key is <= its own
InsertByDistance(s, x) ==
    LET k == Cardinality({i \in DOMAIN s : s[i].distance_km <= x.distance_km})
    IN  SubSeq(s, 1, k) \o <<x>> \o SubSeq(s, k + 1, Len(s))

\* Variant: the sort of lines 206-209 left out.
SortedByDistance_Unsorted(seq) == seq

\* sorted(candidates, key=distance_km): a stable sort (lines 206-209)
SortedByDistance(seq) ==
    LET F[i \in 0..Len(seq)] ==
            IF i = 0 THEN << >> ELSE InsertByDistance(F[i - 1], seq[i])
    IN  F[Len(seq)]

\* seq[:limit]
Truncate(seq, limit) ==
    SubSeq(seq, 1, IF limit < Len(seq) THEN limit ELSE Len(seq))

\* Variant: the list cut to limit before it is sorted.
FindNearestWarehouses_TruncateFirst(whs, lat, lon, material, max_distance_km, limit) ==
    SortedByDistance(
        Truncate(Candidates(whs, lat, lon, material, max_distance_km), limit))

FindNearestWarehouses(whs, lat, lon, material, max_distance_km, limit) ==
    Truncate(
        SortedByDistance(Candidates(whs, lat, lon, material, max_distance_km)),
        limit)

\* ------------------------------------------------- update_warehouse_load
\* Variant: the max(0, ...) of line 278 left out.
NewLoad_NoFloor(old, kg_change) == old + kg_change

\* lines 277-278
NewLoad(old, kg_change) ==
    IF old + kg_change < 0 THEN 0 ELSE old + kg_change

\* Variant: the id test of line 276 and the break of line 280 left out.
UpdatedWarehouses_All(whs, warehouse_id, kg_change) ==
    [i \in DOMAIN whs |->
        [whs[i] EXCEPT !.current_load_kg = NewLoad(@, kg_change)]]

\* The registry after update_warehouse_load: the first warehouse with the
\* given id gets the new load (lines 275-280).
UpdatedWarehouses(whs, warehouse_id, kg_change) ==
    LET hits == {i \in DOMAIN whs : whs[i].warehouse_id = warehouse_id}
    IN  IF hits = {} THEN whs
        ELSE LET first == CHOOSE i \in hits : \A j \in hits : i <= j
             IN  [whs EXCEPT ![first].current_load_kg = NewLoad(@, kg_change)]

\* ------------------------------------------------------ assign_warehouse
\* f"ASG-{now:%Y%m%d%H%M%S}"
AssignmentId(t) == [ts |-> t]

\* The assignment record of lines 237-253.
NewAssignment(assigned, phone, code, lat, lon, material, estimated_kg, t) ==
    [assignment_id |-> AssignmentId(t),
     phone |-> phone,
     code |-> code,
     warehouse_id |-> assigned.warehouse_id,
     warehouse_name |-> assigned.name,
     warehouse_address |-> assigned.address,
     warehouse_phone |-> assigned.phone,
     distance_km |-> assigned.distance_km,
     material |-> material,
     estimated_kg |-> estimated_kg,
     user_latitude |-> lat,
     user_longitude |-> lon,
     assigned_at |-> t,
     status |-> "assigned",
     opening_hours |-> <<assigned.opening_hour, " - ", assigned.closing_hour>>]

\* Variant: with no candidate, the first warehouse of the registry is taken.
Assign_FallbackFirst(whs, asgs, phone, code, lat, lon, material, estimated_kg, t) ==
    LET found == FindNearestWarehouses(whs, lat, lon, material,
                                       DefaultMaxDistanceKm, DefaultLimit)
        pick == IF found = << >>
                THEN WarehouseInfo(whs[1],
                        CalculateDistance(lat, lon, whs[1].latitude, whs[1].longitude))
                ELSE found[1]
        a == NewAssignment(pick, phone, code, lat, lon, material, estimated_kg, t)
    IN  [ret |-> IF found = << >> THEN << >> ELSE <<a>>,
         assignments |-> Append(asgs, a)]

\* Variant: the last of the returned candidates is taken instead of the first.
Assign_PickLast(whs, asgs, phone, code, lat, lon, material, estimated_kg, t) ==
    LET found == FindNearestWarehouses(whs, lat, lon, material,
                                       DefaultMaxDistanceKm, DefaultLimit)
    IN  IF found = << >>
        THEN [ret |-> << >>, assignments |-> asgs]
        ELSE LET a == NewAssignment(found[Len(found)], phone, code, lat, lon,
                                    material, estimated_kg, t)
             IN  [ret |-> <<a>>, assignments |-> Append(asgs, a)]

\* Variant: an earlier assignment of the same phone and code is replaced.
Assign_ReplaceExisting(whs, asgs, phone, code, lat, lon, material, estimated_kg, t) ==
    LET found == FindNearestWarehouses(whs, lat, lon, material,
                                       DefaultMaxDistanceKm, DefaultLimit)
    IN  IF found = << >>
        THEN [ret |-> << >>, assignments |-> asgs]
        ELSE LET a == NewAssignment(found[1], phone, code, lat, lon,
                                    material, estimated_kg, t)
                 same == {i \in DOMAIN asgs :
                             asgs[i].phone = phone /\ asgs[i].code = code}
             IN  [ret |-> <<a>>,
                  assignments |->
                     IF same = {} THEN Append(asgs, a)
                     ELSE [i \in DOMAIN asgs |-> IF i \in same THEN a ELSE asgs[i]]]

\* assign_warehouse (lines 228-258): what it returns and the history it
\* leaves.
Assign(whs, asgs, phone, code, lat, lon, material, estimated_kg, t) ==
    LET found == FindNearestWarehouses(whs, lat, lon, material,
                                       DefaultMaxDistanceKm, DefaultLimit)
    IN  IF found = << >>
        THEN [ret |-> << >>, assignments |-> asgs]
        ELSE LET a == NewAssignment(found[1], phone, code, lat, lon,
                                    material, estimated_kg, t)
             IN  [ret |-> <<a>>, assignments |-> Append(asgs, a)]

\* -------------------------------------------------------- get_assignment
\* Variant: the history scanned oldest first.
GetAssignment_OldestFirst(asgs, phone, code) ==
    LET hits == {i \in DOMAIN asgs : asgs[i].phone = phone /\ asgs[i].code = code}
    IN  IF hits = {} THEN << >>
        ELSE << asgs[CHOOSE i \in hits : \A j \in hits : i <= j] >>

\* lines 288-291: the list scanned in reverse
GetAssignment(asgs, phone, code) ==
    LET hits == {i \in DOMAIN asgs : asgs[i].phone = phone /\ asgs[i].code = code}
    IN  IF hits = {} THEN << >>
        ELSE << asgs[CHOOSE i \in hits : \A j \in hits : i >= j] >>

\* ------------------------------------------------------ is_warehouse_open
\* datetime.strptime(s, '%H:%M').time(), in seconds since midnight, for the
\* opening and closing hours of the registry
ParseTime ==
    ("06:00" :> 21600) @@ ("06:30" :> 23400) @@ ("07:00" :> 25200)
    @@ ("18:00" :> 64800) @@ ("19:00" :> 68400) @@ ("19:30" :> 70200)
    @@ ("20:00" :> 72000)

\* Variant: "<" for the second "<=" of line 271.
IsWarehouseOpen_ClosedAtClosing(whs, warehouse_id, time_of_day) ==
    LET hits == {i \in DOMAIN whs : whs[i].warehouse_id = warehouse_id}
    IN  IF hits = {} THEN FALSE
        ELSE LET w == whs[CHOOSE i \in hits : \A j \in hits : i <= j]
             IN  /\ ParseTime[w.opening_hour] <= time_of_day
                 /\ time_of_day < ParseTime[w.closing_hour]

\* lines 262-271, with datetime.now().time() = time_of_day
IsWarehouseOpen(whs, warehouse_id, time_of_day) ==
    LET hits == {i \in DOMAIN whs : whs[i].warehouse_id = warehouse_id}
    IN  IF hits = {} THEN FALSE
        ELSE LET w == whs[CHOOSE i \in hits : \A j \in hits : i <= j]
             IN  /\ ParseTime[w.opening_hour] <= time_of_day
                 /\ time_of_day <= ParseTime[w.closing_hour]

WResult(op, args, ret) == [op |-> op, args |-> args, ret |-> ret]

NoArgs == [phone |-> "", code |-> NoCode, lat |-> 0, lon |-> 0,
           material |-> "", max_distance_km |-> 0, limit |-> 0,
           warehouse_id |-> "", kg_change |-> 0, time_of_day |-> 0,
           lat2 |-> 0, lon2 |-> 0]

\* ------------------------------------------------------------ persistence
NoFile == << >>

\* json.dump and json.load on the values the stores hold: None is written
\* as null, True and False as true and false
ToJson(v) == IF v = "None" THEN "null" ELSE v

FromJson(v) == IF v = "null" THEN "None" ELSE v

BoolToJson(b) == IF b THEN "true" ELSE "false"

BoolFromJson(v) == v = "true"

\* _save_codes (lines 50-53) and _load_codes (lines 34-43)
DumpCodes(ac) ==
    [c \in DOMAIN ac |->
        [ac[c] EXCEPT !.photo_url = ToJson(@), !.verified = BoolToJson(@)]]

LoadCodes(file) ==
    IF file = NoFile THEN << >>
    ELSE [c \in DOMAIN file[1] |->
            [file[1][c] EXCEPT !.photo_url = FromJson(@),
                               !.verified = BoolFromJson(@)]]

\* _save_transactions (lines 45-48) and _load_transactions (lines 23-32)
DumpTransactions(txns) ==
    [i \in DOMAIN txns |-> [txns[i] EXCEPT !.initial_photo_url = ToJson(@)]]

LoadTransactions(file) ==
    IF file = NoFile THEN << >>
    ELSE [i \in DOMAIN file[1] |->
            [file[1][i] EXCEPT !.initial_photo_url = FromJson(@)]]

\* _save_warehouses (lines 127-131) and _load_warehouses (lines 22-31)
DumpWarehouses(whs) ==
    [i \in DOMAIN whs |-> [whs[i] EXCEPT !.active = BoolToJson(@)]]

LoadWarehouses(file) ==
    IF file = NoFile THEN DefaultWarehouses
    ELSE [i \in DOMAIN file[1] |-> [file[1][i] EXCEPT !.active = BoolFromJson(@)]]

\* _save_assignments (lines 133-136) and _load_assignments (lines 116-125):
\* an assignment holds strings and numbers only
DumpAssignments(asgs) == [i \in DOMAIN asgs |-> asgs[i]]

LoadAssignments(file) ==
    IF file = NoFile THEN << >> ELSE [i \in DOMAIN file[1] |-> file[1][i]]

SaveCodes(d, ac) == [d EXCEPT !.codes = <<DumpCodes(ac)>>]

SaveTransactions(d, txns) == [d EXCEPT !.transactions = <<DumpTransactions(txns)>>]

SaveWarehouses(d, whs) == [d EXCEPT !.warehouses = <<DumpWarehouses(whs)>>]

SaveAssignments(d, asgs) == [d EXCEPT !.assignments = <<DumpAssignments(asgs)>>]

\* _save_commissions (src/revenue_system.py lines 109-112)
SaveCommissions(d, coms) ==
    [d EXCEPT !.commissions = << [i \in DOMAIN coms |-> coms[i]] >>]

\* Variant: the _save_codes() of line 114 left out.
DiskAfterValidate_NoSave(d, v) == d

\* The files after validate_code answered v: the store is written in the
\* expiry branch only (lines 112-115).
DiskAfterValidate(d, v) ==
    IF v.err = ERR_EXPIRED THEN SaveCodes(d, v.codes) ELSE d

\* The files after construction with an empty storage directory:
\* _initialize_default_warehouses writes the registry (line 113).
InitialDisk(whs) ==
    [codes |-> NoFile, transactions |-> NoFile,
     warehouses |-> <<DumpWarehouses(whs)>>,
     assignments |-> NoFile, commissions |-> NoFile,
     ratings |-> NoFile, reputation |-> NoFile]

\* ---------------------------------------------------------------- Init
Init ==
    /\ now = 0
    /\ active_codes = << >>
    /\ transactions = << >>
    /\ created = 0
    /\ last = Result("init", NoCode, TRUE, ERR_NONE, 0)
    /\ expired_seen = {}
    /\ calls = [p \in Procs |-> IdleCall]
    /\ warehouses = DefaultWarehouses
    /\ assignments = << >>
    /\ updates = 0
    /\ wlast = WResult("init", NoArgs, << >>)
    /\ commissions = << >>
    /\ ratings = << >>
    /\ reputation = << >>
    /\ disk = InitialDisk(DefaultWarehouses)

\* ------------------------------------------------------ create_quotation
NewQuotation(code, phone, material, estimated_kg, price_per_kg, valid_hours, t) ==
    [code |-> code,
     phone |-> phone,
     material |-> material,
     estimated_kg |-> estimated_kg,
     price_per_kg |-> price_per_kg,
     total_estimated |-> TotalEstimated(estimated_kg, price_per_kg),
     created_at |-> t,
     expires_at |-> t + valid_hours,
     status |-> "pending",
     photo_url |-> "None",
     verified |-> FALSE,
     transaction_id |-> NoTransactionId]

CreateQuotationBounded(kgs, prices, max) ==
    /\ created < max
    /\ \E code \in GenerateUniqueCode(active_codes), phone \in Phones,
          material \in Materials, estimated_kg \in kgs,
          price_per_kg \in prices :
          /\ active_codes' = Put(active_codes, code,
                 NewQuotation(code, phone, material, estimated_kg,
                              price_per_kg, DefaultValidHours, now))
          /\ last' = Result("create_quotation", code, TRUE, ERR_NONE, 0)
    /\ created' = created + 1
    /\ disk' = SaveCodes(disk, active_codes')
    /\ UNCHANGED <<now, transactions, expired_seen, calls>>
    /\ UNCHANGED whvars
    /\ UNCHANGED svcvars

CreateQuotationWith(kgs, prices) ==
    CreateQuotationBounded(kgs, prices, MaxQuotations)

CreateQuotation == CreateQuotationWith(EstimatedKgs, Prices)

\* --------------------------------------------------------- validate_code
ValidateCodeOp ==
    /\ \E code \in Codes :
          LET v == ValidateCode(active_codes, code, now)
          IN  /\ active_codes' = v.codes
              /\ last' = Result("validate_code", code, v.ok, v.err, 0)
              /\ expired_seen' = SeenAfter(expired_seen, code, v)
              /\ disk' = DiskAfterValidate(disk, v)
    /\ UNCHANGED <<now, transactions, created, calls>>
    /\ UNCHANGED whvars
    /\ UNCHANGED svcvars

\* --------------------------------------------------- attach_photo_to_code
\* Variant: the photo is attached to any code of the store, whatever
\* validate_code answered.
AttachPhotoToCode_NoGate ==
    /\ \E code \in Codes, photo_url \in PhotoUrls :
          LET v == ValidateCode(active_codes, code, now)
          IN  /\ expired_seen' = SeenAfter(expired_seen, code, v)
              /\ IF code \notin DOMAIN active_codes
                 THEN /\ active_codes' = v.codes
                      /\ disk' = DiskAfterValidate(disk, v)
                      /\ last' = Result("attach_photo_to_code", code, FALSE, v.err, 0)
                 ELSE /\ active_codes' =
                           [v.codes EXCEPT ![code].photo_url = photo_url,
                                           ![code].status = "photo_uploaded"]
                      /\ disk' = SaveCodes(disk, active_codes')
                      /\ last' = Result("attach_photo_to_code", code, v.ok, v.err, 0)
    /\ UNCHANGED <<now, transactions, created, calls>>
    /\ UNCHANGED whvars
    /\ UNCHANGED svcvars

AttachPhotoToCode ==
    /\ \E code \in Codes, photo_url \in PhotoUrls :
          LET v == ValidateCode(active_codes, code, now)
          IN  /\ expired_seen' = SeenAfter(expired_seen, code, v)
              /\ IF ~v.ok
                 THEN /\ active_codes' = v.codes
                      /\ disk' = DiskAfterValidate(disk, v)
                      /\ last' = Result("attach_photo_to_code", code, FALSE, v.err, 0)
                 ELSE /\ active_codes' =
                           [v.codes EXCEPT ![code].photo_url = photo_url,
                                           ![code].status = "photo_uploaded"]
                      /\ disk' = SaveCodes(disk, active_codes')
                      /\ last' = Result("attach_photo_to_code", code, TRUE, ERR_NONE, 0)
    /\ UNCHANGED <<now, transactions, created, calls>>
    /\ UNCHANGED whvars
    /\ UNCHANGED svcvars

\* --------------------------------------------------- complete_transaction
\* The transaction record built from quotation q (lines 166-192).
BuildTransaction(q, code, actual_kg, payment_method, warehouse_id, t) ==
    LET weight_difference == WeightDifference(actual_kg, q.estimated_kg)
    IN  [transaction_id |-> TransactionId(t, code),
         code |-> code,
         phone |-> q.phone,
         material |-> q.material,
         estimated_kg |-> q.estimated_kg,
         actual_kg |-> actual_kg,
         weight_difference_kg |-> weight_difference,
         weight_difference_percent |->
             WeightDifferencePercent(weight_difference, q.estimated_kg),
         price_per_kg |-> q.price_per_kg,
         total_amount |-> TotalAmount(actual_kg, q.price_per_kg),
         payment_method |-> payment_method,
         warehouse_id |-> warehouse_id,
         initial_photo_url |-> q.photo_url,
         created_at |-> q.created_at,
         completed_at |-> t,
         status |-> "completed"]

\* Variant: the status write of line 195 done before the computation.
Commit_WriteBeforeCompute(ac, txns, code, actual_kg, payment_method, warehouse_id, t) ==
    LET marked == [ac EXCEPT ![code].status = "completed"]
    IN  IF ac[code].estimated_kg = 0
        THEN [ok |-> FALSE, err |-> ERR_ZERO_DIV, codes |-> marked, txns |-> txns]
        ELSE LET txn == BuildTransaction(ac[code], code, actual_kg,
                                         payment_method, warehouse_id, t)
             IN  [ok |-> TRUE, err |-> ERR_NONE,
                  codes |-> [marked EXCEPT ![code].transaction_id = txn.transaction_id],
                  txns |-> Append(txns, txn)]

\* Variant: the new transaction put at the head of the ledger.
Commit_Prepend(ac, txns, code, actual_kg, payment_method, warehouse_id, t) ==
    IF ac[code].estimated_kg = 0
    THEN [ok |-> FALSE, err |-> ERR_ZERO_DIV, codes |-> ac, txns |-> txns]
    ELSE LET txn == BuildTransaction(ac[code], code, actual_kg,
                                     payment_method, warehouse_id, t)
         IN  [ok |-> TRUE, err |-> ERR_NONE,
              codes |-> [ac EXCEPT ![code].status = "completed",
                                   ![code].transaction_id = txn.transaction_id],
              txns |-> <<txn>> \o txns]

\* The part of complete_transaction after the validate_code gate
\* (lines 164-204), run on store ac and ledger txns, for a code of ac.
Commit(ac, txns, code, actual_kg, payment_method, warehouse_id, t) ==
    IF ac[code].estimated_kg = 0
    THEN [ok |-> FALSE, err |-> ERR_ZERO_DIV, codes |-> ac, txns |-> txns]
    ELSE LET txn == BuildTransaction(ac[code], code, actual_kg,
                                     payment_method, warehouse_id, t)
         IN  [ok |-> TRUE, err |-> ERR_NONE,
              codes |-> [ac EXCEPT ![code].status = "completed",
                                   ![code].transaction_id = txn.transaction_id],
              txns |-> Append(txns, txn)]

\* The files after the part of complete_transaction that follows the gate:
\* both stores are written at its end (lines 201-202), nothing when the
\* computation raised.
DiskAfterCommit(d, r) ==
    IF r.ok THEN SaveCodes(SaveTransactions(d, r.txns), r.codes) ELSE d

CompleteTransactionWith(kgs) ==
    /\ \E code \in Codes, actual_kg \in kgs,
          payment_method \in PaymentMethods, warehouse_id \in WarehouseIds :
          LET v == ValidateCode(active_codes, code, now)
              r == Commit(v.codes, transactions, code, actual_kg,
                          payment_method, warehouse_id, now)
          IN  /\ expired_seen' = SeenAfter(expired_seen, code, v)
              /\ IF ~v.ok
                 THEN /\ active_codes' = v.codes
                      /\ transactions' = transactions
                      /\ disk' = DiskAfterValidate(disk, v)
                      /\ last' = Result("complete_transaction", code, FALSE, v.err, 0)
                 ELSE /\ active_codes' = r.codes
                      /\ transactions' = r.txns
                      /\ disk' = DiskAfterCommit(disk, r)
                      /\ last' = Result("complete_transaction", code, r.ok, r.err, 0)
    /\ UNCHANGED <<now, created, calls>>
    /\ UNCHANGED whvars
    /\ UNCHANGED svcvars

CompleteTransaction == CompleteTransactionWith(ActualKgs)

\* --------------------------------------------------- clean_expired_codes
\* First pass (lines 227-232): the codes marked "expired" by this call.
\* Variant: the status test of line 229 left out.
CodesToRemove_AnyStatus(ac, t) == {c \in DOMAIN ac : t > ac[c].expires_at}
CodesToRemove(ac, t) ==
    {c \in DOMAIN ac : t > ac[c].expires_at /\ ac[c].status = "pending"}

\* Variant: the cutoff test of line 238 left out.
CodesPurged_NoRetention(ac, t) == CodesToRemove(ac, t)

\* Second pass (lines 235-239): of those, the codes deleted.
CodesPurged(ac, t) ==
    {c \in CodesToRemove(ac, t) : ac[c].expires_at < t - RetentionHours}

CleanExpiredCodes ==
    /\ LET marked == CodesToRemove(active_codes, now)
           purged == CodesPurged(active_codes, now)
       IN  /\ active_codes' =
                [c \in DOMAIN active_codes \ purged |->
                    IF c \in marked
                    THEN [active_codes[c] EXCEPT !.status = "expired"]
                    ELSE active_codes[c]]
           /\ last' = Result("clean_expired_codes", NoCode, TRUE, ERR_NONE,
                             Cardinality(marked))
    /\ disk' = SaveCodes(disk, active_codes')
    /\ UNCHANGED <<now, transactions, created, expired_seen, calls>>
    /\ UNCHANGED whvars
    /\ UNCHANGED svcvars

\* ------------------------------------------------------------ the clock
TickWith(hours) ==
    /\ \E d \in hours :
          /\ now + d <= MaxTime
          /\ now' = now + d
    /\ last' = Result("tick", NoCode, TRUE, ERR_NONE, 0)
    /\ UNCHANGED disk
    /\ UNCHANGED <<active_codes, transactions, created, expired_seen, calls>>
    /\ UNCHANGED whvars
    /\ UNCHANGED svcvars

Tick == TickWith(TickHours)

\* ------------------------------------------------ sequential specification
Next ==
    \/ CreateQuotation
    \/ ValidateCodeOp
    \/ AttachPhotoToCode
    \/ CompleteTransaction
    \/ CleanExpiredCodes
    \/ Tick

Spec == Init /\ [][Next]_vars

\* ------------------------------------------- specification of the totals
\* create_quotation and complete_transaction over wider weights and prices
CreateQuotationCalc == CreateQuotationWith(CalcEstimatedKgs, CalcPrices)

CompleteTransactionCalc == CompleteTransactionWith(CalcActualKgs)

NextCalc ==
    \/ CreateQuotationCalc
    \/ CompleteTransactionCalc

SpecCalc == Init /\ [][NextCalc]_vars

\* ------------------------------------ two writers sharing the store
\* complete_transaction run by writer p in two steps: the validate_code
\* gate (line 159-162), then the computation, the status write and the
\* ledger append (lines 164-204).
BeginComplete(p) ==
    /\ calls[p].pc = "idle"
    /\ \E code \in Codes, actual_kg \in ActualKgs :
          LET v == ValidateCode(active_codes, code, now)
          IN  /\ active_codes' = v.codes
              /\ expired_seen' = SeenAfter(expired_seen, code, v)
              /\ disk' = DiskAfterValidate(disk, v)
              /\ IF v.ok
                 THEN /\ calls' = [calls EXCEPT ![p] =
                            [pc |-> "validated", code |-> code,
                             actual_kg |-> actual_kg]]
                      /\ last' = Result("begin_complete", code, TRUE, ERR_NONE, 0)
                 ELSE /\ calls' = calls
                      /\ last' = Result("complete_transaction", code, FALSE, v.err, 0)
    /\ UNCHANGED <<now, transactions, created>>
    /\ UNCHANGED whvars
    /\ UNCHANGED svcvars

FinishComplete(p) ==
    /\ calls[p].pc = "validated"
    /\ \E payment_method \in PaymentMethods, warehouse_id \in WarehouseIds :
          LET r == Commit(active_codes, transactions, calls[p].code,
                          calls[p].actual_kg, payment_method, warehouse_id, now)
          IN  /\ active_codes' = r.codes
              /\ transactions' = r.txns
              /\ disk' = DiskAfterCommit(disk, r)
              /\ last' = Result("complete_transaction", calls[p].code, r.ok, r.err, 0)
    /\ calls' = [calls EXCEPT ![p] = IdleCall]
    /\ UNCHANGED <<now, created, expired_seen>>
    /\ UNCHANGED whvars
    /\ UNCHANGED svcvars

NextRace ==
    \/ CreateQuotation
    \/ \E p \in Procs : BeginComplete(p)
    \/ \E p \in Procs : FinishComplete(p)

SpecRace == Init /\ [][NextRace]_vars

\* ------------------------------------------ warehouse registry operations
\* The state after construction when warehouses.json exists (lines 24-29).
InitWh ==
    /\ now = 0
    /\ active_codes = << >>
    /\ transactions = << >>
    /\ created = 0
    /\ last = Result("init", NoCode, TRUE, ERR_NONE, 0)
    /\ expired_seen = {}
    /\ calls = [p \in Procs |-> IdleCall]
    /\ \E off \in SUBSET InactiveAtLoad : warehouses = LoadedWarehouses(off)
    /\ assignments = << >>
    /\ updates = 0
    /\ wlast = WResult("init", NoArgs, << >>)
    /\ commissions = << >>
    /\ ratings = << >>
    /\ reputation = << >>
    /\ disk = InitialDisk(warehouses)

FindNearestWarehousesWith(points, materials, distances, limits) ==
    /\ \E pt \in points, material \in materials,
          max_distance_km \in distances, limit \in limits :
          wlast' = WResult("find_nearest_warehouses",
                       [NoArgs EXCEPT !.lat = pt[1], !.lon = pt[2],
                                      !.material = material,
                                      !.max_distance_km = max_distance_km,
                                      !.limit = limit],
                       FindNearestWarehouses(warehouses, pt[1], pt[2], material,
                                             max_distance_km, limit))
    /\ UNCHANGED <<warehouses, assignments, updates, disk>>
    /\ UNCHANGED txvars
    /\ UNCHANGED svcvars

FindNearestWarehousesOp ==
    FindNearestWarehousesWith(UserPoints, SearchMaterials, SearchDistances,
                              SearchLimits)

\* The files after update_warehouse_load: the registry is written when a
\* warehouse with the id was found (line 279).
DiskAfterUpdate(d, whs, warehouse_id, updated) ==
    IF \E i \in DOMAIN whs : whs[i].warehouse_id = warehouse_id
    THEN SaveWarehouses(d, updated)
    ELSE d

UpdateWarehouseLoadWith(ids, changes) ==
    /\ updates < MaxUpdates
    /\ \E warehouse_id \in ids, kg_change \in changes :
          /\ warehouses' = UpdatedWarehouses(warehouses, warehouse_id, kg_change)
          /\ disk' = DiskAfterUpdate(disk, warehouses, warehouse_id, warehouses')
          /\ wlast' = WResult("update_warehouse_load",
                          [NoArgs EXCEPT !.warehouse_id = warehouse_id,
                                         !.kg_change = kg_change],
                          << >>)
    /\ updates' = updates + 1
    /\ UNCHANGED assignments
    /\ UNCHANGED txvars
    /\ UNCHANGED svcvars

UpdateWarehouseLoad == UpdateWarehouseLoadWith(LoadWarehouseIds, LoadChanges)

NextWh ==
    \/ FindNearestWarehousesOp
    \/ UpdateWarehouseLoad

SpecWh == InitWh /\ [][NextWh]_vars

\* ------------------------------------------------- assignment operations
\* The files after assign_warehouse: the history is written when an
\* assignment was recorded (line 256).
DiskAfterAssign(d, r) ==
    IF r.ret = << >> THEN d ELSE SaveAssignments(d, r.assignments)

AssignWarehouseWith(phones, points, max) ==
    /\ Len(assignments) < max
    /\ \E phone \in phones, code \in Codes, pt \in points,
          material \in AssignMaterials, estimated_kg \in AssignEstimatedKgs :
          LET r == Assign(warehouses, assignments, phone, code, pt[1], pt[2],
                          material, estimated_kg, now)
          IN  /\ assignments' = r.assignments
              /\ disk' = DiskAfterAssign(disk, r)
              /\ wlast' = WResult("assign_warehouse",
                              [NoArgs EXCEPT !.phone = phone, !.code = code,
                                             !.lat = pt[1], !.lon = pt[2],
                                             !.material = material],
                              r.ret)
    /\ UNCHANGED <<warehouses, updates>>
    /\ UNCHANGED txvars
    /\ UNCHANGED svcvars

\* Variant: the assignment adds estimated_kg to the load of the warehouse
\* it picked.
AssignWarehouse_ReservesLoad ==
    /\ Len(assignments) < MaxAssignments
    /\ \E phone \in AssignPhones, code \in Codes, pt \in AssignPoints,
          material \in AssignMaterials, estimated_kg \in AssignEstimatedKgs :
          LET r == Assign(warehouses, assignments, phone, code, pt[1], pt[2],
                          material, estimated_kg, now)
          IN  /\ assignments' = r.assignments
              /\ disk' = DiskAfterAssign(disk, r)
              /\ warehouses' =
                    IF r.ret = << >> THEN warehouses
                    ELSE UpdatedWarehouses(warehouses, r.ret[1].warehouse_id,
                                           estimated_kg)
              /\ wlast' = WResult("assign_warehouse",
                              [NoArgs EXCEPT !.phone = phone, !.code = code,
                                             !.lat = pt[1], !.lon = pt[2],
                                             !.material = material],
                              r.ret)
    /\ UNCHANGED updates
    /\ UNCHANGED txvars
    /\ UNCHANGED svcvars

AssignWarehouse == AssignWarehouseWith(AssignPhones, AssignPoints, MaxAssignments)

GetAssignmentOp ==
    /\ \E phone \in AssignPhones, code \in Codes :
          wlast' = WResult("get_assignment",
                       [NoArgs EXCEPT !.phone = phone, !.code = code],
                       GetAssignment(assignments, phone, code))
    /\ UNCHANGED <<warehouses, assignments, updates, disk>>
    /\ UNCHANGED txvars
    /\ UNCHANGED svcvars

UpdateWarehouseLoadAssign ==
    UpdateWarehouseLoadWith(AssignLoadWarehouseIds, AssignLoadChanges)

NextAssign ==
    \/ AssignWarehouse
    \/ GetAssignmentOp
    \/ UpdateWarehouseLoadAssign

SpecAssign == Init /\ [][NextAssign]_vars

\* --------------------------------------------------- opening hours
IsWarehouseOpenOp ==
    /\ \E warehouse_id \in OpenWarehouseIds, time_of_day \in TimesOfDay :
          wlast' = WResult("is_warehouse_open",
                       [NoArgs EXCEPT !.warehouse_id = warehouse_id,
                                      !.time_of_day = time_of_day],
                       <<IsWarehouseOpen(warehouses, warehouse_id, time_of_day)>>)
    /\ UNCHANGED <<warehouses, assignments, updates, disk>>
    /\ UNCHANGED txvars
    /\ UNCHANGED svcvars

NextOpen == IsWarehouseOpenOp

SpecOpen == InitWh /\ [][NextOpen]_vars

\* --------------------------------- searches and assignments interleaved
\* the search assign_warehouse makes (line 228), called on its own
FindNearestWarehousesDefault ==
    FindNearestWarehousesWith(AssignPoints, AssignMaterials,
                              {DefaultMaxDistanceKm}, {DefaultLimit})

NextReserve ==
    \/ AssignWarehouse
    \/ FindNearestWarehousesDefault
    \/ UpdateWarehouseLoadAssign

SpecReserve == Init /\ [][NextReserve]_vars

\* ------------------------------------- every writing operation together
\* One quotation, one assignment, and the load changes of one warehouse.
CreateQuotationOnce ==
    /\ created = 0
    /\ CreateQuotation

\* Variant: a code that validate_code refuses gets no assignment.
AssignWarehouseOnce_ValidCodesOnly ==
    /\ Len(assignments) < 1
    /\ \E code \in Codes, pt \in {PointBetween, PointFar},
          material \in AssignMaterials, estimated_kg \in AssignEstimatedKgs :
          LET r == IF ValidateCode(active_codes, code, now).ok
                   THEN Assign(warehouses, assignments, "+51900000001", code,
                               pt[1], pt[2], material, estimated_kg, now)
                   ELSE [ret |-> << >>, assignments |-> assignments]
          IN  /\ assignments' = r.assignments
              /\ disk' = DiskAfterAssign(disk, r)
              /\ wlast' = WResult("assign_warehouse",
                              [NoArgs EXCEPT !.phone = "+51900000001",
                                             !.code = code,
                                             !.lat = pt[1], !.lon = pt[2],
                                             !.material = material],
                              r.ret)
    /\ UNCHANGED <<warehouses, updates>>
    /\ UNCHANGED txvars
    /\ UNCHANGED svcvars
AssignWarehouseOnce ==
    AssignWarehouseWith({"+51900000001"}, {PointBetween, PointFar}, 1)

UpdateWarehouseLoadPersist ==
    UpdateWarehouseLoadWith(AssignLoadWarehouseIds, {3300000})

\* the clock moved past the expiry and the retention window in one step
TickPersist == TickWith({DefaultValidHours + RetentionHours + 24})

NextPersist ==
    \/ CreateQuotationOnce
    \/ ValidateCodeOp
    \/ AttachPhotoToCode
    \/ CompleteTransaction
    \/ CleanExpiredCodes
    \/ TickPersist
    \/ AssignWarehouseOnce
    \/ UpdateWarehouseLoadPersist

SpecPersist == Init /\ [][NextPersist]_vars

\* --------------------------------------------------- calculate_commission
\* f"COM-{now:%Y%m%d%H%M%S}"
CommissionId(t) == [ts |-> t]

\* RevenueSystem.calculate_commission (src/revenue_system.py lines 124-177)
\* on the ledger coms.  The margin of line 151 divides by provider_price and
\* raises when it is 0, before anything is appended.  The sums of money of
\* the record (lines 146-148) are not part of the model.
\* Variant: the record is appended before the margin is computed, so a
\* call that raises leaves it in the ledger.
CalculateCommission_AppendBeforeMargin(coms, transaction_id, material, quantity_kg, provider_price, t) ==
    LET appended ==
            Append(coms,
                [commission_id |-> CommissionId(t),
                 transaction_id |-> transaction_id,
                 material |-> material,
                 quantity_kg |-> quantity_kg,
                 provider_price_per_kg |-> provider_price,
                 created_at |-> t,
                 status |-> "pending"])
    IN  IF provider_price = 0
        THEN [ok |-> FALSE, err |-> ERR_ZERO_DIV, commissions |-> appended]
        ELSE [ok |-> TRUE, err |-> ERR_NONE, commissions |-> appended]
CalculateCommission(coms, transaction_id, material, quantity_kg, provider_price, t) ==
    IF provider_price = 0
    THEN [ok |-> FALSE, err |-> ERR_ZERO_DIV, commissions |-> coms]
    ELSE [ok |-> TRUE, err |-> ERR_NONE,
          commissions |->
              Append(coms,
                  [commission_id |-> CommissionId(t),
                   transaction_id |-> transaction_id,
                   material |-> material,
                   quantity_kg |-> quantity_kg,
                   provider_price_per_kg |-> provider_price,
                   created_at |-> t,
                   status |-> "pending"])]

\* ------------------------------------------- the /complete-transaction flow
CreateQuotationFlow == CreateQuotationWith(FlowEstimatedKgs, FlowPrices)

\* complete_transaction_endpoint (src/main.py lines 205-288):
\* complete_transaction, then calculate_commission, then
\* update_warehouse_load; an exception raised by any of them ends the
\* request with status 500 and what was written before it stays written.
\* The messages sent and the metric tracked afterwards touch none of the
\* stores modelled here.
CompleteTransactionEndpoint ==
    /\ \E code \in Codes, actual_kg \in ActualKgs,
          payment_method \in PaymentMethods, warehouse_id \in FlowWarehouseIds :
          LET v == ValidateCode(active_codes, code, now)
              r == Commit(v.codes, transactions, code, actual_kg,
                          payment_method, warehouse_id, now)
              txn == r.txns[Len(r.txns)]
              c == CalculateCommission(commissions, txn.transaction_id,
                                       txn.material, actual_kg,
                                       txn.price_per_kg, now)
              loaded == UpdatedWarehouses(warehouses, warehouse_id, actual_kg)
          IN  /\ expired_seen' = SeenAfter(expired_seen, code, v)
              /\ IF ~v.ok
                 THEN /\ active_codes' = v.codes
                      /\ disk' = DiskAfterValidate(disk, v)
                      /\ UNCHANGED <<transactions, commissions, warehouses>>
                      /\ last' = Result("complete_transaction_endpoint", code,
                                        FALSE, v.err, 500)
                 ELSE IF ~r.ok
                 THEN /\ UNCHANGED <<active_codes, disk, transactions,
                                     commissions, warehouses>>
                      /\ last' = Result("complete_transaction_endpoint", code,
                                        FALSE, r.err, 500)
                 ELSE IF ~c.ok
                 THEN /\ active_codes' = r.codes
                      /\ transactions' = r.txns
                      /\ disk' = DiskAfterCommit(disk, r)
                      /\ commissions' = c.commissions
                      /\ UNCHANGED warehouses
                      /\ last' = Result("complete_transaction_endpoint", code,
                                        FALSE, c.err, 500)
                 ELSE /\ active_codes' = r.codes
                      /\ transactions' = r.txns
                      /\ commissions' = c.commissions
                      /\ warehouses' = loaded
                      /\ disk' = DiskAfterUpdate(
                                    SaveCommissions(DiskAfterCommit(disk, r),
                                                    c.commissions),
                                    warehouses, warehouse_id, loaded)
                      /\ last' = Result("complete_transaction_endpoint", code,
                                        TRUE, ERR_NONE, 200)
    /\ UNCHANGED <<now, created, calls, assignments, updates, wlast>>
    /\ UNCHANGED <<ratings, reputation>>

NextFlow ==
    \/ CreateQuotationFlow
    \/ CompleteTransactionEndpoint
    \/ TickPersist

SpecFlow == Init /\ [][NextFlow]_vars

\* ---------------------------------------------------------------------------
\* calculate_distance on its own (warehouse_system.py 138-156): a pure
\* function of two points.
\* ---------------------------------------------------------------------------
CalculateDistanceOp ==
    /\ \E p \in DistancePoints, q \in DistancePoints :
          wlast' = WResult("calculate_distance",
                       [NoArgs EXCEPT !.lat = p[1], !.lon = p[2],
                                      !.lat2 = q[1], !.lon2 = q[2]],
                       <<Haversine(p[1], p[2], q[1], q[2])>>)
    /\ UNCHANGED <<warehouses, assignments, updates, disk>>
    /\ UNCHANGED txvars
    /\ UNCHANGED svcvars

NextDistance == CalculateDistanceOp

SpecDistance == Init /\ [][NextDistance]_vars

\* ---------------------------------------------------------------------------
\* The lifecycle of one code: quotation, photo, assignment, completion
\* (transaction_system.py 122-204, warehouse_system.py 213-258,
\* main.py 216-223).
\* ---------------------------------------------------------------------------
\* The only test complete_transaction makes before it builds the transaction
\* (lines 159-162).
\* Variant: a code without a photo is refused.
CompletionGate_PhotoRequired(ac, code, t) ==
    LET v == ValidateCode(ac, code, t)
    IN  IF v.ok /\ ac[code].status # "photo_uploaded"
        THEN [ok |-> FALSE, err |-> "Falta la foto", codes |-> v.codes]
        ELSE v
CompletionGate(ac, code, t) == ValidateCode(ac, code, t)

\* complete_transaction as main.py 216-223 calls it: the warehouse_id is the
\* caller's, whatever the registry and the assignments hold.
CompleteTransactionAnyWarehouse ==
    /\ \E code \in Codes, actual_kg \in ActualKgs,
          payment_method \in PaymentMethods, warehouse_id \in FlowWarehouseIds :
          LET v == CompletionGate(active_codes, code, now)
              r == Commit(v.codes, transactions, code, actual_kg,
                          payment_method, warehouse_id, now)
          IN  /\ expired_seen' = SeenAfter(expired_seen, code, v)
              /\ wlast' = WResult("complete_transaction",
                              [NoArgs EXCEPT !.code = code,
                                             !.warehouse_id = warehouse_id],
                              << >>)
              /\ IF ~v.ok
                 THEN /\ active_codes' = v.codes
                      /\ transactions' = transactions
                      /\ disk' = DiskAfterValidate(disk, v)
                      /\ last' = Result("complete_transaction", code, FALSE, v.err, 0)
                 ELSE /\ active_codes' = r.codes
                      /\ transactions' = r.txns
                      /\ disk' = DiskAfterCommit(disk, r)
                      /\ last' = Result("complete_transaction", code, r.ok, r.err, 0)
    /\ UNCHANGED <<now, created, calls>>
    /\ UNCHANGED <<warehouses, assignments, updates>>
    /\ UNCHANGED svcvars

NextLifecycle ==
    \/ CreateQuotation
    \/ ValidateCodeOp
    \/ AttachPhotoToCode
    \/ AssignWarehouseOnce
    \/ CompleteTransactionAnyWarehouse
    \/ TickPersist

SpecLifecycle == Init /\ [][NextLifecycle]_vars

\* ---------------------------------------------------------------------------
\* complete_transaction statement by statement, with a stop of the process
\* and a restart from the files (transaction_system.py 159-202, 20-43).
\* Process 1 runs the call: BeginComplete(1) is lines 159-162.
\* ---------------------------------------------------------------------------
\* Lines 164-201: the transaction is built, the quotation marked, the
\* transaction appended, and the transaction file written.
CompleteWriteTransactions ==
    /\ calls[1].pc = "validated"
    /\ Len(transactions) < MaxLedger
    /\ \E payment_method \in PaymentMethods, warehouse_id \in WarehouseIds :
          LET r == Commit(active_codes, transactions, calls[1].code,
                          calls[1].actual_kg, payment_method, warehouse_id, now)
          IN  /\ active_codes' = r.codes
              /\ transactions' = r.txns
              /\ IF r.ok
                 THEN /\ disk' = SaveTransactions(disk, r.txns)
                      /\ calls' = [calls EXCEPT ![1].pc = "transactions_saved"]
                      /\ last' = Result("save_transactions", calls[1].code,
                                        TRUE, ERR_NONE, 0)
                 ELSE /\ disk' = disk
                      /\ calls' = [calls EXCEPT ![1] = IdleCall]
                      /\ last' = Result("complete_transaction", calls[1].code,
                                        FALSE, r.err, 0)
    /\ UNCHANGED <<now, created, expired_seen>>
    /\ UNCHANGED whvars
    /\ UNCHANGED svcvars

\* Line 202: the quotation file is written and the call returns.
CompleteWriteCodes ==
    /\ calls[1].pc = "transactions_saved"
    /\ disk' = SaveCodes(disk, active_codes)
    /\ last' = Result("complete_transaction", calls[1].code, TRUE, ERR_NONE, 0)
    /\ calls' = [calls EXCEPT ![1] = IdleCall]
    /\ UNCHANGED <<now, active_codes, transactions, created, expired_seen>>
    /\ UNCHANGED whvars
    /\ UNCHANGED svcvars

\* The process stops wherever it is and a new one starts: __init__ reads
\* both stores from their files (lines 20-21) and no call is in progress.
StopAndRestart ==
    /\ transactions' = LoadTransactions(disk.transactions)
    /\ active_codes' = LoadCodes(disk.codes)
    /\ calls' = [p \in Procs |-> IdleCall]
    /\ last' = Result("restart", NoCode, TRUE, ERR_NONE, 0)
    /\ UNCHANGED <<now, created, expired_seen, disk>>
    /\ UNCHANGED whvars
    /\ UNCHANGED svcvars

NextCrash ==
    \/ CreateQuotation
    \/ BeginComplete(1)
    \/ CompleteWriteTransactions
    \/ CompleteWriteCodes
    \/ StopAndRestart

SpecCrash == Init /\ [][NextCrash]_vars

\* ---------------------------------------------------------------------------
\* Codes issued again after a purge (transaction_system.py 55-60, 221-242):
\* more quotations are created than there are codes.
\* ---------------------------------------------------------------------------
CreateQuotationAgain ==
    CreateQuotationBounded(FlowEstimatedKgs, Prices, MaxIssues)

NextReissue ==
    \/ CreateQuotationAgain
    \/ ValidateCodeOp
    \/ CompleteTransaction
    \/ CleanExpiredCodes
    \/ TickPersist

SpecReissue == Init /\ [][NextReissue]_vars

\* ---------------------------------------------------------------------------
\* RatingSystem (rating_system.py 9-125): the ratings, the reputation of
\* each phone, and their two files.
\* ---------------------------------------------------------------------------
\* A key of stars_distribution: the int n of the dict literal of line 103,
\* or the string str(n) json gives back for it.
IntKey(n) == <<"int", n>>

StrKey(n) == <<"str", n>>

\* json.dump writes a dict's int keys as strings (line 51).
DumpDistribution(dist) ==
    [k \in {StrKey(j[2]) : j \in DOMAIN dist} |->
        LET j == CHOOSE j \in DOMAIN dist : j[2] = k[2] IN dist[j]]

DumpReputation(rep) ==
    [p \in DOMAIN rep |->
        [rep[p] EXCEPT !.stars_distribution = DumpDistribution(@)]]

\* json.load keeps the keys as it finds them: strings (lines 32-41).
LoadReputation(file) == IF file = NoFile THEN << >> ELSE file[1]

DumpRatings(rs) == [i \in DOMAIN rs |-> [rs[i] EXCEPT !.feedback = ToJson(@)]]

LoadRatings(file) ==
    IF file = NoFile THEN << >>
    ELSE [i \in DOMAIN file[1] |-> [file[1][i] EXCEPT !.feedback = FromJson(@)]]

SaveRatings(d, rs) == [d EXCEPT !.ratings = <<DumpRatings(rs)>>]

SaveReputation(d, rep) == [d EXCEPT !.reputation = <<DumpReputation(rep)>>]

\* lines 98-108
NewReputation(phone, t) ==
    [phone |-> phone,
     total_ratings |-> 0,
     average_stars |-> 0,
     stars_distribution |-> [k \in {IntKey(n) : n \in 1..5} |-> 0],
     total_transactions |-> 0,
     reward_level |-> "bronze",
     bonus_percentage |-> 0,
     last_updated |-> t]

\* _calculate_reward_level (lines 127-136), the average in hundredths
CalculateRewardLevel(total_ratings, avg_stars) ==
    IF total_ratings >= 50 /\ avg_stars >= 470 THEN "platinum"
    ELSE IF total_ratings >= 25 /\ avg_stars >= 450 THEN "gold"
    ELSE IF total_ratings >= 10 /\ avg_stars >= 400 THEN "silver"
    ELSE "bronze"

\* _get_bonus_percentage (lines 138-146), in tenths of a percent
GetBonusPercentage(level) ==
    IF level = "silver" THEN 20
    ELSE IF level = "gold" THEN 50
    ELSE IF level = "platinum" THEN 80
    ELSE 0

RECURSIVE SumOver(_, _)
SumOver(f, keys) ==
    IF keys = {} THEN 0
    ELSE LET k == CHOOSE k \in keys : TRUE
         IN  f[k] + SumOver(f, keys \ {k})

\* sum(stars * count ...) of line 116
TotalStars(dist) ==
    SumOver([k \in DOMAIN dist |-> k[2] * dist[k]], DOMAIN dist)

\* _update_user_reputation (lines 96-125) up to its save: total_ratings is
\* raised (line 112) before stars_distribution[new_stars] is looked up with
\* the int key (line 113), which raises KeyError when the dict came from the
\* file.
UpdateUserReputation(rep, phone, new_stars, t) ==
    LET base == IF phone \in DOMAIN rep THEN rep
                ELSE Put(rep, phone, NewReputation(phone, t))
        counted == [base EXCEPT ![phone].total_ratings = @ + 1]
        dist == counted[phone].stars_distribution
    IN  IF IntKey(new_stars) \notin DOMAIN dist
        THEN [ok |-> FALSE, err |-> ERR_KEY, reputation |-> counted]
        ELSE LET dist2 == [dist EXCEPT ![IntKey(new_stars)] = @ + 1]
                 avg == RoundDiv(TotalStars(dist2) * 100,
                                 counted[phone].total_ratings)
                 level == CalculateRewardLevel(counted[phone].total_ratings, avg)
             IN  [ok |-> TRUE, err |-> ERR_NONE,
                  reputation |->
                      [counted EXCEPT ![phone].stars_distribution = dist2,
                                      ![phone].average_stars = avg,
                                      ![phone].reward_level = level,
                                      ![phone].bonus_percentage =
                                          GetBonusPercentage(level),
                                      ![phone].last_updated = t]]

\* lines 77-86
NewRating(transaction_id, phone, stars, t) ==
    [rating_id |-> [ts |-> t],
     transaction_id |-> transaction_id,
     phone |-> phone,
     stars |-> stars,
     feedback |-> "None",
     created_at |-> t,
     helpful_count |-> 0]

\* submit_rating (lines 54-94): the rating is appended and its file written
\* (lines 88-89) before the reputation is updated and saved (lines 92, 125).
SubmitRating ==
    /\ Len(ratings) < MaxRatings
    /\ \E transaction_id \in RatingTransactionIds, phone \in RatingPhones,
          stars \in RatingStars :
          IF ~(1 <= stars /\ stars <= 5)
          THEN /\ UNCHANGED <<ratings, reputation, disk>>
               /\ last' = Result("submit_rating", NoCode, FALSE, ERR_STARS, 0)
          ELSE LET u == UpdateUserReputation(reputation, phone, stars, now)
               IN  /\ ratings' = Append(ratings,
                                     NewRating(transaction_id, phone, stars, now))
                   /\ reputation' = u.reputation
                   /\ disk' = IF u.ok
                              THEN SaveReputation(SaveRatings(disk, ratings'),
                                                  u.reputation)
                              ELSE SaveRatings(disk, ratings')
                   /\ last' = Result("submit_rating", NoCode, u.ok, u.err, 0)
    /\ UNCHANGED <<now, active_codes, transactions, created, expired_seen, calls>>
    /\ UNCHANGED whvars
    /\ UNCHANGED commissions

\* A new process: __init__ reads both files (lines 18-19).
RestartRatings ==
    /\ ratings' = LoadRatings(disk.ratings)
    /\ reputation' = LoadReputation(disk.reputation)
    /\ last' = Result("restart", NoCode, TRUE, ERR_NONE, 0)
    /\ UNCHANGED <<now, active_codes, transactions, created, expired_seen, calls>>
    /\ UNCHANGED whvars
    /\ UNCHANGED <<commissions, disk>>

NextRating == SubmitRating \/ RestartRatings

SpecRating == Init /\ [][NextRating]_vars

\* ================================================================ claims
HasTransaction(code) ==
    \E i \in DOMAIN transactions : transactions[i].code = code

IsCompleted(ac, code) ==
    code \in DOMAIN ac /\ ac[code].status = "completed"

Abs(n) == IF n < 0 THEN -n ELSE n

\* C1: in every state reachable by the sequential operations and clock
\* advances, the ledger holds at most one transaction per quotation code.
C1_OneTransactionPerCode ==
    \A i, j \in DOMAIN transactions :
        i # j => transactions[i].code # transactions[j].code

\* A second complete_transaction on a code that is in the ledger was refused.
C1_Witness ==
    /\ last.op = "complete_transaction"
    /\ ~last.ok
    /\ HasTransaction(last.code)

\* C2 (as stated): a complete_transaction call on a code that already has a
\* transaction fails with the reason "already used", whatever happened in
\* between.
C2_SecondCallAlreadyUsed ==
    [][(last'.op = "complete_transaction" /\ HasTransaction(last'.code))
          => (~last'.ok /\ last'.err = ERR_USED)]_vars

\* C3 (as stated): with the validate_code gate and the write of two
\* complete_transaction calls interleaved, at most one transaction is
\* created per code.
C3_AtMostOneCompletionPerCode ==
    \A c \in Codes :
        Cardinality({i \in DOMAIN transactions : transactions[i].code = c}) <= 1

\* C4 (as stated): once a quotation is "completed", no later operation
\* changes its status or removes it.
C4_CompletedIsTerminal ==
    [][\A c \in Codes :
          IsCompleted(active_codes, c) => IsCompleted(active_codes', c)]_vars

\* C5 (as stated): a quotation is "completed" iff the ledger holds a
\* transaction with its code, and then its transaction_id is that
\* transaction's.
C5_CompletedIffInLedger ==
    \A c \in Codes :
        /\ IsCompleted(active_codes, c) <=> HasTransaction(c)
        /\ \A i \in DOMAIN transactions :
              (transactions[i].code = c /\ c \in DOMAIN active_codes)
                 => active_codes[c].transaction_id = transactions[i].transaction_id

\* C6: a complete_transaction call that fails (not found, expired, already
\* used, division by a zero estimate) appends nothing to the ledger, marks
\* no quotation "completed" and writes no transaction_id.
C6_FailedCompletionWritesNothing ==
    [][(last'.op = "complete_transaction" /\ ~last'.ok)
          => /\ last'.err \in {ERR_NOT_FOUND, ERR_EXPIRED, ERR_USED, ERR_ZERO_DIV}
             /\ transactions' = transactions
             /\ DOMAIN active_codes' = DOMAIN active_codes
             /\ \A c \in DOMAIN active_codes :
                   /\ IsCompleted(active_codes', c) => IsCompleted(active_codes, c)
                   /\ active_codes'[c].transaction_id = active_codes[c].transaction_id]_vars

\* complete_transaction raised on a quotation whose estimated_kg is 0.
C6_Witness ==
    /\ last.op = "complete_transaction"
    /\ last.err = ERR_ZERO_DIV
    /\ active_codes[last.code].status = "pending"

\* C7: validate_code on a quotation that is not completed succeeds at every
\* time up to expires_at and fails with "expired" after it; a code on which
\* validate_code has answered "expired" is never accepted again.
C7_ExpirationMonotonic ==
    /\ (/\ last.op = "validate_code"
        /\ last.code \in DOMAIN active_codes
        /\ active_codes[last.code].status # "completed")
          => /\ last.ok <=> now <= active_codes[last.code].expires_at
             /\ ~last.ok => last.err = ERR_EXPIRED
    /\ \A c \in expired_seen :
          /\ c \in DOMAIN active_codes
          /\ now > active_codes[c].expires_at
          /\ ~ValidateCode(active_codes, c, now).ok

\* validate_code answers "expired" again, past the retention window, on a
\* code it had already answered "expired" for.
C7_Witness ==
    /\ last.op = "validate_code"
    /\ last.err = ERR_EXPIRED
    /\ last.code \in expired_seen
    /\ now > active_codes[last.code].expires_at + RetentionHours

\* C8: validate_code leaves the ledger alone and changes the quotation
\* store only when it answers "expired", where it sets that quotation's
\* status to "expired".
C8_ValidateCodeFrame ==
    [][last'.op = "validate_code"
          => /\ transactions' = transactions
             /\ IF last'.err = ERR_EXPIRED
                THEN active_codes' =
                        [active_codes EXCEPT ![last'.code].status = "expired"]
                ELSE active_codes' = active_codes]_vars

\* validate_code has answered "expired" on a quotation that had a photo
\* attached, and its status is "expired".
C8_Witness ==
    /\ last.op = "validate_code"
    /\ last.err = ERR_EXPIRED
    /\ active_codes[last.code].status = "expired"
    /\ active_codes[last.code].photo_url # "None"

\* C9: create_quotation returns a code that is not a key of the store, adds
\* exactly that key and leaves every existing quotation as it was.
C9_CreateNeverOverwrites ==
    [][last'.op = "create_quotation"
          => /\ last'.code \notin DOMAIN active_codes
             /\ DOMAIN active_codes' = DOMAIN active_codes \cup {last'.code}
             /\ \A c \in DOMAIN active_codes : active_codes'[c] = active_codes[c]]_vars

\* A second quotation was created while the first is still in the store.
C9_Witness ==
    /\ last.op = "create_quotation"
    /\ Cardinality(DOMAIN active_codes) = 2
    /\ created = 2

\* C10: every transaction carries the quotation's price, total_amount =
\* actual_kg * price_per_kg, weight_difference_kg = actual_kg - estimated_kg
\* and weight_difference_percent = weight_difference_kg / estimated_kg * 100,
\* each within half a unit of the second decimal; 8 kg, 10 kg and 2.20 give
\* 22.00, 2.0 and 25.0.
C10_DeterministicTotals ==
    \A i \in DOMAIN transactions :
        LET txn == transactions[i]
            q == active_codes[txn.code]
        IN  /\ txn.price_per_kg = q.price_per_kg
            /\ txn.estimated_kg = q.estimated_kg
            /\ 2 * Abs(txn.total_amount * 10000 - txn.actual_kg * q.price_per_kg)
                  <= 10000
            /\ 2 * Abs(txn.weight_difference_kg * 10 - (txn.actual_kg - q.estimated_kg))
                  <= 10
            /\ 2 * Abs(txn.weight_difference_percent * q.estimated_kg
                          - txn.weight_difference_kg * 100000)
                  <= Abs(q.estimated_kg)
            /\ (q.estimated_kg = 8000 /\ txn.actual_kg = 10000 /\ q.price_per_kg = 2200)
                  => /\ txn.total_amount = 2200
                     /\ txn.weight_difference_kg = 200
                     /\ txn.weight_difference_percent = 2500

\* The ledger holds the 8 kg / 10 kg / 2.20 example and a transaction whose
\* total is not a whole number of cents before rounding.
C10_Witness ==
    /\ \E i \in DOMAIN transactions :
          /\ transactions[i].estimated_kg = 8000
          /\ transactions[i].actual_kg = 10000
          /\ transactions[i].price_per_kg = 2200
    /\ \E i \in DOMAIN transactions :
          (transactions[i].actual_kg * transactions[i].price_per_kg) % 10000 # 0

\* ------------------------------------------------ warehouse registry claims
\* The conditions under which a warehouse can be returned for a search,
\* written out on the registry record.
EligibleAt(w, lat, lon, material, max_distance_km) ==
    /\ w.active
    /\ material \in w.materials_accepted
    /\ w.current_load_kg * 10 <= 9 * w.capacity_kg
    /\ CalculateDistance(lat, lon, w.latitude, w.longitude) <= max_distance_km

\* As EligibleAt, leaving the load out.
EligibleButLoad(w, lat, lon, material, max_distance_km) ==
    /\ w.active
    /\ material \in w.materials_accepted
    /\ CalculateDistance(lat, lon, w.latitude, w.longitude) <= max_distance_km

ReturnedIds(ret) == {ret[i].warehouse_id : i \in DOMAIN ret}

RegistryIndex(id) == CHOOSE i \in DOMAIN warehouses : warehouses[i].warehouse_id = id

IsSearch == wlast.op = "find_nearest_warehouses"

C12_MaterialAndActiveGate ==
    IsSearch =>
        \A k \in DOMAIN wlast.ret :
            \E i \in DOMAIN warehouses :
                /\ warehouses[i].warehouse_id = wlast.ret[k].warehouse_id
                /\ warehouses[i].active
                /\ wlast.args.material \in warehouses[i].materials_accepted

\* A search returned something while leaving out an inactive warehouse and
\* one that does not accept the material, both within the distance asked
\* and below the load threshold.
C12_Witness ==
    /\ IsSearch
    /\ wlast.ret # << >>
    /\ \E i, j \in DOMAIN warehouses :
          LET a == wlast.args
              InReach(w) ==
                  /\ CalculateDistance(a.lat, a.lon, w.latitude, w.longitude)
                        <= a.max_distance_km
                  /\ w.current_load_kg * 10 <= 9 * w.capacity_kg
          IN  /\ InReach(warehouses[i])
              /\ ~warehouses[i].active
              /\ InReach(warehouses[j])
              /\ warehouses[j].active
              /\ a.material \notin warehouses[j].materials_accepted

\* C13: the list a search returns is non-decreasing in distance_km, and of
\* two entries at the same distance the one earlier in the registry comes
\* first.
C13_SortedStable ==
    IsSearch =>
        \A k, l \in DOMAIN wlast.ret :
            k < l =>
                /\ wlast.ret[k].distance_km <= wlast.ret[l].distance_km
                /\ wlast.ret[k].distance_km = wlast.ret[l].distance_km
                      => RegistryIndex(wlast.ret[k].warehouse_id)
                            < RegistryIndex(wlast.ret[l].warehouse_id)

\* A search returned two warehouses at the same distance.
C13_Witness ==
    /\ IsSearch
    /\ Len(wlast.ret) >= 2
    /\ wlast.ret[1].distance_km = wlast.ret[2].distance_km

\* C14: a search returns min(limit, k) distinct warehouses out of the k
\* eligible ones, each with its computed distance, none farther than
\* max_distance_km, and no eligible warehouse left out is strictly nearer
\* than a returned one.
C14_NearestOfEligible ==
    IsSearch =>
        LET a == wlast.args
            Q == {i \in DOMAIN warehouses :
                     EligibleAt(warehouses[i], a.lat, a.lon, a.material,
                                a.max_distance_km)}
            D(i) == CalculateDistance(a.lat, a.lon, warehouses[i].latitude,
                                      warehouses[i].longitude)
            R == {RegistryIndex(wlast.ret[k].warehouse_id) : k \in DOMAIN wlast.ret}
        IN  /\ Len(wlast.ret) =
                  IF a.limit < Cardinality(Q) THEN a.limit ELSE Cardinality(Q)
            /\ Cardinality(R) = Len(wlast.ret)
            /\ R \subseteq Q
            /\ \A k \in DOMAIN wlast.ret :
                  /\ wlast.ret[k].distance_km
                        = D(RegistryIndex(wlast.ret[k].warehouse_id))
                  /\ wlast.ret[k].distance_km <= a.max_distance_km
            /\ \A q \in Q \ R : \A r \in R : D(q) >= D(r)

\* A search found more eligible warehouses than limit and cut the list.
C14_Witness ==
    /\ IsSearch
    /\ Len(wlast.ret) = wlast.args.limit
    /\ \E i \in DOMAIN warehouses :
          /\ EligibleAt(warehouses[i], wlast.args.lat, wlast.args.lon,
                        wlast.args.material, wlast.args.max_distance_km)
          /\ warehouses[i].warehouse_id \notin ReturnedIds(wlast.ret)

\* C15: every warehouse's current_load_kg is >= 0 in every state reached by
\* update_warehouse_load calls; a change of -1000000 kg leaves the named
\* warehouse at 0.
C15_LoadNeverNegative ==
    /\ \A i \in DOMAIN warehouses : warehouses[i].current_load_kg >= 0
    /\ (wlast.op = "update_warehouse_load" /\ wlast.args.kg_change = -1000000000)
          => \A i \in DOMAIN warehouses :
                warehouses[i].warehouse_id = wlast.args.warehouse_id
                   => warehouses[i].current_load_kg = 0

\* The load of a warehouse that was brought down to 100 kg has been floored
\* at 0 by a second, larger negative change.
C15_Witness ==
    /\ wlast.op = "update_warehouse_load"
    /\ wlast.args.kg_change = -1000000000
    /\ updates = 2
    /\ \E i \in DOMAIN warehouses :
          /\ warehouses[i].warehouse_id = wlast.args.warehouse_id
          /\ warehouses[i].current_load_kg = 0

\* C16: update_warehouse_load(id, kg_change) sets the named warehouse's load
\* to max(0, old + kg_change), with no upper clamp, and leaves every other
\* warehouse, every other field and the assignment history unchanged; with
\* an unknown id it changes nothing.
C16_UpdateLoadFrame ==
    [][wlast'.op = "update_warehouse_load"
          => /\ assignments' = assignments
             /\ DOMAIN warehouses' = DOMAIN warehouses
             /\ \A i \in DOMAIN warehouses :
                   IF warehouses[i].warehouse_id = wlast'.args.warehouse_id
                   THEN LET sum == warehouses[i].current_load_kg
                                      + wlast'.args.kg_change
                        IN  warehouses'[i] =
                               [warehouses[i] EXCEPT !.current_load_kg =
                                   IF sum > 0 THEN sum ELSE 0]
                   ELSE warehouses'[i] = warehouses[i]]_vars

\* An update has driven a warehouse over its capacity while assignments
\* were on record.
C16_Witness ==
    /\ wlast.op = "update_warehouse_load"
    /\ assignments # << >>
    /\ \E i \in DOMAIN warehouses :
          /\ warehouses[i].warehouse_id = wlast.args.warehouse_id
          /\ warehouses[i].current_load_kg > warehouses[i].capacity_kg

\* ------------------------------------------------------ assignment claims
\* C17: when no warehouse is eligible within 5 km for the coordinates and
\* material given, assign_warehouse returns None and the assignment history
\* is left as it was.
C17_NoWarehouseReturnsNone ==
    [][(/\ wlast'.op = "assign_warehouse"
        /\ \A i \in DOMAIN warehouses :
              ~EligibleAt(warehouses[i], wlast'.args.lat, wlast'.args.lon,
                          wlast'.args.material, DefaultMaxDistanceKm))
          => /\ wlast'.ret = << >>
             /\ assignments' = assignments]_vars

\* assign_warehouse returned None with an assignment already on record.
C17_Witness ==
    /\ wlast.op = "assign_warehouse"
    /\ wlast.ret = << >>
    /\ assignments # << >>

\* C18: an assignment recorded by assign_warehouse names a warehouse that is
\* eligible within 5 km at that moment, carries that warehouse's computed
\* distance, and no eligible warehouse is strictly nearer.
C18_AssignsNearestEligible ==
    [][(wlast'.op = "assign_warehouse" /\ wlast'.ret # << >>)
          => LET asg == wlast'.ret[1]
                 a == wlast'.args
                 D(i) == CalculateDistance(a.lat, a.lon, warehouses[i].latitude,
                                           warehouses[i].longitude)
                 Q == {i \in DOMAIN warehouses :
                          EligibleAt(warehouses[i], a.lat, a.lon, a.material,
                                     DefaultMaxDistanceKm)}
             IN  /\ assignments' = Append(assignments, asg)
                 /\ \E i \in Q :
                       /\ warehouses[i].warehouse_id = asg.warehouse_id
                       /\ asg.distance_km = D(i)
                       /\ \A j \in Q : D(j) >= D(i)]_vars

\* With the nearest warehouse over the load threshold, the assignment went
\* to the next one.
C18_Witness ==
    /\ wlast.op = "assign_warehouse"
    /\ wlast.ret # << >>
    /\ wlast.ret[1].warehouse_id = "WH001"
    /\ \E i \in DOMAIN warehouses :
          /\ warehouses[i].warehouse_id = "WH003"
          /\ warehouses[i].current_load_kg * 10 > 9 * warehouses[i].capacity_kg

\* C19: the assignment history only grows at its end, and an assignment
\* once recorded is never altered by a later operation.
C19_AssignmentsAppendOnly ==
    [][/\ Len(assignments') >= Len(assignments)
       /\ \A i \in DOMAIN assignments : assignments'[i] = assignments[i]]_vars

\* Two assignments are on record and the warehouse of the first has had its
\* load changed since.
C19_Witness ==
    /\ Len(assignments) = 2
    /\ wlast.op = "update_warehouse_load"
    /\ assignments[1].warehouse_id = wlast.args.warehouse_id

\* C20: get_assignment(phone, code) returns the last assignment of the
\* history whose phone and code both equal the arguments, and None when
\* there is none.
C20_LatestMatching ==
    wlast.op = "get_assignment" =>
        LET hits == {i \in DOMAIN assignments :
                        /\ assignments[i].phone = wlast.args.phone
                        /\ assignments[i].code = wlast.args.code}
        IN  IF hits = {}
            THEN wlast.ret = << >>
            ELSE /\ Len(wlast.ret) = 1
                 /\ \E i \in hits :
                       /\ wlast.ret[1] = assignments[i]
                       /\ \A j \in hits : j <= i

\* get_assignment answered for a pair that has two different assignments.
C20_Witness ==
    /\ wlast.op = "get_assignment"
    /\ Len(assignments) = 2
    /\ assignments[1].phone = wlast.args.phone
    /\ assignments[1].code = wlast.args.code
    /\ assignments[2].phone = wlast.args.phone
    /\ assignments[2].code = wlast.args.code
    /\ assignments[1] # assignments[2]
    /\ wlast.ret = <<assignments[2]>>

\* C21: a find_nearest_warehouses or assign_warehouse call leaves the
\* registry as it was, every record and every field, current_load_kg
\* included: assignments reserve no capacity.
C21_SearchAndAssignLeaveRegistry ==
    [][wlast'.op \in {"find_nearest_warehouses", "assign_warehouse"}
          => warehouses' = warehouses]_vars

\* Two assignments went to one warehouse, its load is what it was at
\* construction, and a search made afterwards still returns it.
C21_Witness ==
    /\ IsSearch
    /\ Len(assignments) = 2
    /\ assignments[1].warehouse_id = assignments[2].warehouse_id
    /\ assignments[1].warehouse_id \in ReturnedIds(wlast.ret)
    /\ \E i \in DOMAIN warehouses :
          /\ warehouses[i].warehouse_id = assignments[1].warehouse_id
          /\ warehouses[i].current_load_kg = DefaultWarehouses[i].current_load_kg

\* ---------------------------------------------- quotation store claims
\* validate_code accepts code c: it is in the store, the clock has not
\* passed its expires_at, and it is not "completed".
Accepted(c) ==
    /\ c \in DOMAIN active_codes
    /\ now <= active_codes[c].expires_at
    /\ active_codes[c].status # "completed"

\* C22: attach_photo_to_code on a code validate_code accepts sets photo_url
\* and status "photo_uploaded" and returns success; on a code it rejects it
\* returns failure with the reason of the rejection and leaves photo_url as
\* it was and the status other than "photo_uploaded".
C22_AttachPhotoGated ==
    [][last'.op = "attach_photo_to_code"
          => LET c == last'.code
             IN  IF Accepted(c)
                 THEN /\ last'.ok
                      /\ active_codes'[c].photo_url \in PhotoUrls
                      /\ active_codes'[c].status = "photo_uploaded"
                 ELSE /\ ~last'.ok
                      /\ last'.err =
                            IF c \notin DOMAIN active_codes THEN ERR_NOT_FOUND
                            ELSE IF now > active_codes[c].expires_at
                                 THEN ERR_EXPIRED ELSE ERR_USED
                      /\ DOMAIN active_codes' = DOMAIN active_codes
                      /\ c \in DOMAIN active_codes
                            => /\ active_codes'[c].photo_url
                                     = active_codes[c].photo_url
                               /\ active_codes'[c].status # "photo_uploaded"]_vars

\* attach_photo_to_code was refused on a completed quotation, which stays
\* completed and without the photo.
C22_Witness ==
    /\ last.op = "attach_photo_to_code"
    /\ ~last.ok
    /\ last.err = ERR_USED
    /\ IsCompleted(active_codes, last.code)
    /\ active_codes[last.code].photo_url = "None"

\* The ledger s is an initial part of the ledger t.
IsPrefix(s, t) == Len(s) <= Len(t) /\ \A i \in DOMAIN s : t[i] = s[i]

\* C23 (as stated): after clean_expired_codes has run at a time more than 7
\* days past the expires_at of a quotation that was never completed (it is
\* "pending" or was marked "expired" by an earlier call), that quotation is
\* not in the store.
C23_LongExpiredPurged ==
    [][last'.op = "clean_expired_codes"
          => \A c \in DOMAIN active_codes :
                (/\ ~HasTransaction(c)
                 /\ active_codes[c].status \in {"pending", "expired"}
                 /\ now > active_codes[c].expires_at + RetentionHours)
                   => c \notin DOMAIN active_codes']_vars

\* C24: a quotation leaves the store only in a clean_expired_codes call,
\* only if that call found it "pending" past its expires_at (and so marked
\* it "expired" in its first pass) and its expires_at is more than 7 days
\* before the clock; a quotation that is unexpired, within the 7 days,
\* "completed" or "photo_uploaded" is never deleted.
C24_PurgeOnlyMarkedAndOld ==
    [][\A c \in DOMAIN active_codes :
          c \notin DOMAIN active_codes'
             => /\ last'.op = "clean_expired_codes"
                /\ active_codes[c].status = "pending"
                /\ now > active_codes[c].expires_at
                /\ active_codes[c].expires_at < now - RetentionHours
                /\ active_codes[c].status \notin {"completed", "photo_uploaded"}]_vars

\* clean_expired_codes has deleted one quotation and kept another, marked
\* "expired".
C24_Witness ==
    /\ last.op = "clean_expired_codes"
    /\ Cardinality(DOMAIN active_codes) < created
    /\ \E c \in DOMAIN active_codes : active_codes[c].status = "expired"

\* C25 (as stated): clean_expired_codes returns the number of codes that
\* call removed from the store.
C25_ReturnsNumberRemoved ==
    [][last'.op = "clean_expired_codes"
          => last'.ret = Cardinality(DOMAIN active_codes \ DOMAIN active_codes')]_vars

\* C28: every step leaves the ledger as it was or adds transactions at its
\* end: none is removed, moved or modified.
C28_LedgerAppendOnly ==
    [][IsPrefix(transactions, transactions')]_vars

\* The ledger holds two transactions while the quotation of the first is no
\* longer "completed" in the store.
C28_Witness ==
    /\ Len(transactions) = 2
    /\ ~IsCompleted(active_codes, transactions[1].code)

\* C29: is_warehouse_open(id) answers false for an id that is not in the
\* registry, and for one that is, true exactly when the time of day lies
\* between its opening and closing hour, both ends included.
C29_OpenBetweenHoursInclusive ==
    wlast.op = "is_warehouse_open" =>
        LET known == {i \in DOMAIN warehouses :
                         warehouses[i].warehouse_id = wlast.args.warehouse_id}
            t == wlast.args.time_of_day
        IN  IF known = {}
            THEN wlast.ret = <<FALSE>>
            ELSE \A i \in known :
                    wlast.ret = << /\ ParseTime[warehouses[i].opening_hour] <= t
                                   /\ t <= ParseTime[warehouses[i].closing_hour] >>

\* A warehouse was found open at the very second it closes.
C29_Witness ==
    /\ wlast.op = "is_warehouse_open"
    /\ wlast.ret = <<TRUE>>
    /\ \E i \in DOMAIN warehouses :
          /\ warehouses[i].warehouse_id = wlast.args.warehouse_id
          /\ ParseTime[warehouses[i].closing_hour] = wlast.args.time_of_day

\* C30: after every completed operation the files hold the stores: an
\* instance constructed from them has the same quotations, transactions,
\* warehouses and assignments as the running one.
C30_DiskEqualsMemory ==
    /\ LoadCodes(disk.codes) = active_codes
    /\ LoadTransactions(disk.transactions) = transactions
    /\ LoadWarehouses(disk.warehouses) = warehouses
    /\ LoadAssignments(disk.assignments) = assignments

\* Every store has been written: a transaction is on file, the quotation's
\* relabelling as "expired" too, an assignment, and a changed warehouse load.
C30_Witness ==
    /\ disk.transactions # NoFile
    /\ disk.assignments # NoFile
    /\ transactions # << >>
    /\ assignments # << >>
    /\ warehouses # DefaultWarehouses
    /\ \E c \in DOMAIN active_codes : active_codes[c].status = "expired"

\* ------------------------------------------------ completion flow claims
\* C26 (as stated): a /complete-transaction request that records a
\* transaction for warehouse W with weight actual_kg leaves W's
\* current_load_kg increased by actual_kg.
C26_RecordedImpliesLoadUpdated ==
    [][(/\ last'.op = "complete_transaction_endpoint"
        /\ Len(transactions') > Len(transactions))
          => LET txn == transactions'[Len(transactions')]
             IN  \E i \in DOMAIN warehouses :
                    /\ warehouses[i].warehouse_id = txn.warehouse_id
                    /\ warehouses'[i].current_load_kg
                          = warehouses[i].current_load_kg + txn.actual_kg]_vars

\* C27 (as stated): after any sequence of /complete-transaction requests
\* the commission ledger holds one record, with status "pending", for each
\* transaction of the transaction ledger, and no other.
C27_OneCommissionPerTransaction ==
    /\ Len(commissions) = Len(transactions)
    /\ \A i \in DOMAIN transactions :
          /\ i \in DOMAIN commissions
          /\ commissions[i].transaction_id = transactions[i].transaction_id
          /\ commissions[i].status = "pending"

\* One degree of latitude in metres on a sphere of radius 6371 km
\* (6371000 * pi / 180): along a meridian the great circle is the meridian.
MetresPerDegree == 111195

MeridianArc(dlat) == (Abs(dlat) * MetresPerDegree + 50000) \div 100000

\* C31: calculate_distance returns the great-circle distance on a sphere of
\* radius 6371 km, rounded to 2 decimals: 0.0 for identical points, the
\* meridian arc for two points of one longitude, and for a user's point and
\* a warehouse the value the registry search works with.
C31_HaversineRounded ==
    wlast.op = "calculate_distance" =>
        LET a == wlast.args
            p == <<a.lat, a.lon>>
            q == <<a.lat2, a.lon2>>
        IN  /\ p = q => wlast.ret = <<0>>
            /\ a.lon = a.lon2 => wlast.ret = <<MeridianArc(a.lat2 - a.lat)>>
            /\ (p \in UserPoints
                    /\ \E i \in DOMAIN WarehousePoints : WarehousePoints[i] = q)
                => wlast.ret = <<CalculateDistance(a.lat, a.lon, a.lat2, a.lon2)>>

C31_Witness ==
    /\ wlast.op = "calculate_distance"
    /\ <<wlast.args.lat, wlast.args.lon>> = PointAtWH001
    /\ <<wlast.args.lat2, wlast.args.lon2>> = PointAtWH001
    /\ wlast.ret = <<0>>

C31_WitnessMeridian ==
    /\ wlast.op = "calculate_distance"
    /\ <<wlast.args.lat, wlast.args.lon>> = PointAtWH001
    /\ <<wlast.args.lat2, wlast.args.lon2>> = PointSouthOfWH001
    /\ wlast.ret = <<592>>

\* A step of complete_transaction, told by the two call records.
IsCompleteStep ==
    /\ last'.op = "complete_transaction"
    /\ wlast'.op = "complete_transaction"
    /\ last'.code = wlast'.args.code
    /\ (last' # last \/ wlast' # wlast \/ active_codes' # active_codes)

CompletionRecorded ==
    /\ last'.ok
    /\ Len(transactions') = Len(transactions) + 1
    /\ IsPrefix(transactions, transactions')
    /\ transactions'[Len(transactions')].code = wlast'.args.code
    /\ transactions'[Len(transactions')].warehouse_id = wlast'.args.warehouse_id
    /\ IsCompleted(active_codes', wlast'.args.code)

\* C32 as stated: complete_transaction succeeds on any code that
\* validate_code accepts and records the caller's warehouse_id.
C32_SucceedsOnAnyAcceptedCode ==
    [][(IsCompleteStep /\ ValidateCode(active_codes, wlast'.args.code, now).ok)
          => CompletionRecorded]_vars

\* C32, amended: complete_transaction succeeds on any code that
\* validate_code accepts and whose estimated_kg is not 0, with or without a
\* photo or an assignment, and records the caller's warehouse_id, whatever
\* the registry and the assignments hold.
C32_SucceedsOnAcceptedNonZeroEstimate ==
    [][(/\ IsCompleteStep
        /\ ValidateCode(active_codes, wlast'.args.code, now).ok
        /\ active_codes[wlast'.args.code].estimated_kg # 0)
          => CompletionRecorded]_vars

\* completed without photo and without assignment, at a warehouse the
\* registry does not hold
C32_Witness ==
    /\ wlast.op = "complete_transaction"
    /\ last.op = "complete_transaction"
    /\ last.ok
    /\ Len(transactions) = 1
    /\ transactions[1].warehouse_id = "WH999"
    /\ transactions[1].initial_photo_url = "None"
    /\ assignments = << >>
    /\ \A i \in DOMAIN warehouses : warehouses[i].warehouse_id # "WH999"

\* completed at a warehouse other than the one the code was assigned to
C32_WitnessOtherWarehouse ==
    /\ wlast.op = "complete_transaction"
    /\ last.ok
    /\ Len(transactions) = 1
    /\ Len(assignments) = 1
    /\ assignments[1].code = transactions[1].code
    /\ assignments[1].warehouse_id # transactions[1].warehouse_id

\* C33: after a stop inside complete_transaction and a restart from the
\* files, every persisted transaction's quotation is persisted as
\* "completed", and no code has two transactions.
C33_CrashConsistent ==
    LET txns == LoadTransactions(disk.transactions)
        codes == LoadCodes(disk.codes)
    IN  /\ last.op = "restart" =>
               \A i \in DOMAIN txns : IsCompleted(codes, txns[i].code)
        /\ \A i, j \in DOMAIN txns : txns[i].code = txns[j].code => i = j

\* C34: when the /complete-transaction request fails after
\* complete_transaction has recorded the transaction, the transaction and
\* the quotation's "completed" status stay, in memory and in the files,
\* while no commission is recorded for it and no warehouse load changes.
C34_FailureAfterRecordingKeepsTransaction ==
    [][(/\ last'.op = "complete_transaction_endpoint"
        /\ last'.ret = 500
        /\ transactions' # transactions)
          => LET txn == transactions'[Len(transactions')]
             IN  /\ transactions' = Append(transactions, txn)
                 /\ txn.code = last'.code
                 /\ IsCompleted(active_codes', txn.code)
                 /\ active_codes'[txn.code].transaction_id = txn.transaction_id
                 /\ LoadTransactions(disk'.transactions) = transactions'
                 /\ IsCompleted(LoadCodes(disk'.codes), txn.code)
                 /\ commissions' = commissions
                 /\ disk'.commissions = disk.commissions
                 /\ warehouses' = warehouses
                 /\ disk'.warehouses = disk.warehouses]_vars

\* a request answered 500 whose transaction is in the ledger
C34_Witness ==
    /\ last.op = "complete_transaction_endpoint"
    /\ last.ret = 500
    /\ last.err = ERR_ZERO_DIV
    /\ \E i \in DOMAIN transactions :
          /\ transactions[i].code = last.code
          /\ transactions[i].price_per_kg = 0
          /\ IsCompleted(active_codes, last.code)
          /\ \A j \in DOMAIN commissions :
                commissions[j].transaction_id # transactions[i].transaction_id

\* A step of assign_warehouse, told by its call record.
IsAssignStep ==
    /\ wlast'.op = "assign_warehouse"
    /\ (wlast' # wlast \/ assignments' # assignments)

\* C35: assign_warehouse leaves the quotation store and the ledger alone,
\* in memory and in the files, and its outcome is the nearest warehouse of
\* the search for the point and the material, whatever the quotation store
\* holds for the code: unknown, expired and completed codes are assigned as
\* valid ones are.
C35_AssignIgnoresQuotationStore ==
    [][IsAssignStep
          => LET a == wlast'.args
                 found == FindNearestWarehouses(warehouses, a.lat, a.lon,
                              a.material, DefaultMaxDistanceKm, DefaultLimit)
             IN  /\ active_codes' = active_codes
                 /\ transactions' = transactions
                 /\ disk'.codes = disk.codes
                 /\ disk'.transactions = disk.transactions
                 /\ IF found = << >>
                    THEN /\ wlast'.ret = << >>
                         /\ assignments' = assignments
                    ELSE /\ Len(wlast'.ret) = 1
                         /\ wlast'.ret[1].warehouse_id = found[1].warehouse_id
                         /\ wlast'.ret[1].code = a.code
                         /\ assignments' = Append(assignments, wlast'.ret[1])]_vars

\* an assignment recorded for a code that is already completed
C35_Witness ==
    /\ wlast.op = "assign_warehouse"
    /\ Len(wlast.ret) = 1
    /\ IsCompleted(active_codes, wlast.args.code)
    /\ Len(assignments) = 1
    /\ assignments[1].code = wlast.args.code

\* an assignment recorded for a code the store does not hold
C35_WitnessUnknown ==
    /\ wlast.op = "assign_warehouse"
    /\ Len(wlast.ret) = 1
    /\ wlast.args.code \notin DOMAIN active_codes

\* an assignment recorded for a code marked "expired"
C35_WitnessExpired ==
    /\ wlast.op = "assign_warehouse"
    /\ Len(wlast.ret) = 1
    /\ wlast.args.code \in DOMAIN active_codes
    /\ active_codes[wlast.args.code].status = "expired"
    /\ wlast.ret[1].assigned_at > active_codes[wlast.args.code].expires_at

MarkedExpired(ac, code) ==
    code \in DOMAIN ac /\ ac[code].status = "expired"

\* C36: a quotation is marked "expired" only when the clock is past its
\* expires_at, and a call of validate_code, attach_photo_to_code or
\* complete_transaction on a quotation marked "expired" is refused.
C36_ExpiredOnlyPastExpiry ==
    [][/\ \A c \in DOMAIN active_codes' :
             MarkedExpired(active_codes', c) => now' > active_codes'[c].expires_at
       /\ (/\ last'.op \in {"validate_code", "attach_photo_to_code",
                            "complete_transaction"}
           /\ MarkedExpired(active_codes, last'.code))
             => (~last'.ok /\ last'.err = ERR_EXPIRED)]_vars

\* complete_transaction refused on a quotation that carries the mark
C36_Witness ==
    /\ last.op = "complete_transaction"
    /\ ~last.ok
    /\ last.err = ERR_EXPIRED
    /\ last.code \in expired_seen
    /\ MarkedExpired(active_codes, last.code)
    /\ now > active_codes[last.code].expires_at

\* C37: a quotation whose code has a transaction in the ledger is never
\* deleted from the store, and create_quotation never issues a code that
\* has a transaction, whatever clean_expired_codes purged in between.
C37_CompletedCodeNeverReissued ==
    [][/\ \A c \in Codes :
             (\E i \in DOMAIN transactions' : transactions'[i].code = c)
                => c \in DOMAIN active_codes'
       /\ (last'.op = "create_quotation" /\ created' = created + 1)
             => ~HasTransaction(last'.code)]_vars

\* a purged, never completed code is issued again while the completed one
\* is still in the store
C37_Witness ==
    /\ last.op = "create_quotation"
    /\ created = 3
    /\ Cardinality(DOMAIN active_codes) = 2
    /\ ~HasTransaction(last.code)
    /\ active_codes[last.code].created_at > DefaultValidHours + RetentionHours
    /\ \E c \in DOMAIN active_codes :
          /\ c # last.code
          /\ HasTransaction(c)
          /\ active_codes[c].created_at = 0

RatingsOf(phone) == {i \in DOMAIN ratings : ratings[i].phone = phone}

\* C38: for every phone, total_ratings equals the sum of the
\* stars_distribution counts and the number of rating records of the phone,
\* after any submit_rating calls and restarts.
C38_ReputationMatchesRatings ==
    \A phone \in RatingPhones :
        IF phone \in DOMAIN reputation
        THEN LET r == reputation[phone]
             IN  /\ r.total_ratings = Cardinality(RatingsOf(phone))
                 /\ r.total_ratings
                       = SumOver(r.stars_distribution, DOMAIN r.stars_distribution)
        ELSE RatingsOf(phone) = {}

====
